---- MODULE Spec2Model ----
(***************************************************************************)
(* Model of @umituz/react-native-image:                                    *)
(*   - the editor history engine (ImageEditorService) and the editor edHook  *)
(*     handlers that call it (useImageEditor),                             *)
(*   - the batch runner (ImageBatchService.processBatch).                  *)
(*                                                                         *)
(* Conventions.  Sequences are 1-based in TLA+, arrays 0-based in the      *)
(* source: state.historyIndex keeps the source's 0-based value, so the     *)
(* entry under the cursor is state.history[state.historyIndex + 1].        *)
(* A function of the source that can throw is an operator that returns     *)
(* [err, message, state]: err = "none" and the returned state on success,  *)
(* the error's code and message and the untouched argument when it throws. *)
(* zoom is kept in tenths (zoom 1 is 10, the clamp [0.1, 5] is [1, 50]).   *)
(***************************************************************************)
EXTENDS Integers, Sequences, FiniteSets, TLC

VARIABLES
    state,      \* the EditorState the client holds (threaded through the service)
    clock,      \* logical time of `new Date()`: number of history entries created
    filling,    \* fill operations still to run before the free exploration
    budget,     \* free operations still allowed (bounds the exploration)
    trail,      \* the last operations: [op, err, pre, idx, len], with the layer list,
                \* the cursor and the history length the operation started from
    pureRun,    \* TRUE while every operation so far was a successful mutation
    \* processBatch(operations, options)
    operations,   \* the operations argument
    concurrency,  \* options.concurrency; 0 when absent
    bpc,          \* "idle", "loop" (at the for test), "await" (in Promise.all),
                  \* "done" (resolved), "rejected"
    i,            \* the for loop's index (0-based, as in the source)
    status,       \* per operation: "pending", "inflight" (native call running), "settled"
    outcome,      \* per operation: what its processBatchItem promise settled with
    completed,    \* the local counter
    successful,   \* the local list; k is the position of the operation it came from
    failed,       \* the local list; k as above
    progressLog,  \* the calls of options.onProgress, in order
    errorLog,     \* the calls of options.onError, in order
    returned,     \* the BatchProcessingResult counts, once resolved
    \* one call of a service method
    svcPc,        \* "idle", "native" (awaiting manipulateAsync), "fs" (awaiting
                  \* copyToDocuments), "settled"
    call,         \* the call: [op, impl, uri, args]
    nativeLog,    \* the invocations of ImageManipulator.manipulateAsync made by the call
    fsResult,     \* what FileSystemService.copyToDocuments did, once it has
    settled,      \* what the call's promise settled with
    \* one call of ImageUtils.fitToSize
    fitArgs,      \* its arguments [width, height, maxWidth, maxHeight]
    fitResult,    \* the ImageDimensions it returned; [width |-> 0, height |-> 0] before
    \* a component using useImageEditor and a useImageOperation-based edHook
    edHook,       \* useImageEditor's state: [editorState, isProcessing, error]
    opHook,       \* useImageOperation's state: [isProcessing, error]
    hpc,          \* where the running async action stands: "idle", "execute", "load",
                  \* "toBlob", "onSave", "hung" (its promise can no longer settle)
    hcall,        \* the last action called: [hookName, action, returned, before]
    uncaught,     \* exceptions nobody caught
    opFailed,     \* the message the underlying operation failed with, "none" if it did not
    hsteps,       \* actions still allowed (bounds the exploration)
    \* a component using useImageGallery
    visible,        \* useState(false)
    currentIndex,   \* useState(0)
    images,         \* useState([])
    galleryOptions, \* useState(defaultOptions || getDefaultOptions())
    closure,        \* the galleryOptions captured by the open, close and setIndex
                    \* callbacks the component holds (those of its last render)
    gcall,          \* the last call: [op, imageData, startIndex, options, index]
    openLog,        \* the options argument of every open call, in call order
    initialOptions, \* the value galleryOptions was initialised with
    indexChangeLog, \* the invocations of onIndexChange callbacks: [callback, index]
    dismissLog,     \* the invocations of onDismiss callbacks
    gsteps,         \* calls still allowed (bounds the exploration)
    \* one call of CropTool.getCropFromSelection
    cropArgs,     \* [startPoint, endPoint, config, bounds]; bounds is the image size
    cropOut,      \* [done, area]: the CropArea it returned, once it has
    \* the pixel filter functions, called on one source buffer
    heap,         \* the Uint8ClampedArray buffers allocated so far: id -> bytes;
                  \* buffer 1 is the source
    filterLog,    \* one entry per filter call, in call order: [fn, state, ret, fresh,
                  \* original, processed, result, after]
    \* useImageEditor actions invoked between renders of the component
    edRendered,   \* the editorState of the last render, which the addLayer and undo
                  \* callbacks the component holds have captured
    edSequential, \* the state the actions invoked so far give when each is applied to
                  \* the result of the one before
    edPending,    \* actions invoked since the last render
    edEvents,     \* actions invoked so far
    \* overlapping useImageOperation.execute calls
    pendingOps,   \* the operations started through execute and not settled: their ids
    executes      \* execute calls made so far

editorVars == <<state, clock, filling, budget, trail, pureRun>>

batchVars == <<operations, concurrency, bpc, i, status, outcome, completed,
               successful, failed, progressLog, errorLog, returned>>

svcVars == <<svcPc, call, nativeLog, fsResult, settled>>

utilVars == <<fitArgs, fitResult>>

hookVars == <<edHook, opHook, hpc, hcall, uncaught, opFailed, hsteps>>

galleryVars == <<visible, currentIndex, images, galleryOptions, closure, gcall, openLog,
                 initialOptions, indexChangeLog, dismissLog, gsteps>>

cropVars == <<cropArgs, cropOut>>

\* the variables of the remaining components
filterVars == <<heap, filterLog>>

eventVars == <<edRendered, edSequential, edPending, edEvents>>

overlapVars == <<pendingOps, executes>>

moreVars == <<cropVars, filterVars, eventVars, overlapVars>>

vars == <<editorVars, batchVars, svcVars, utilVars, hookVars, galleryVars, moreVars>>

\* the frames of the editor's, the batch's and the services' actions
notEditor == <<batchVars, svcVars, utilVars, hookVars, galleryVars, moreVars>>
notBatch == <<editorVars, svcVars, utilVars, hookVars, galleryVars, moreVars>>
notService == <<editorVars, batchVars, utilVars, hookVars, galleryVars, moreVars>>
notUtil == <<editorVars, batchVars, svcVars, hookVars, galleryVars, moreVars>>
notHook == <<editorVars, batchVars, svcVars, utilVars, galleryVars, moreVars>>
notGallery == <<editorVars, batchVars, svcVars, utilVars, hookVars, moreVars>>
notMore == <<editorVars, batchVars, svcVars, utilVars, hookVars, galleryVars>>

notCrop == <<notMore, filterVars, eventVars, overlapVars>>

notFilter == <<notMore, cropVars, eventVars, overlapVars>>

notHookState == <<editorVars, batchVars, svcVars, utilVars, galleryVars, cropVars, filterVars>>

----------------------------------------------------------------------------
(* Bounds of the exploration *)

\* operations explored from the initial state under Spec
MaxSteps == 4
\* deterministic updateLayer operations that fill the history under SpecCap
FillOps == 56
\* free operations explored after the fill under SpecCap
TailSteps == 4
\* number of operation records the trail keeps
TrailLen == 3

(* Program constants *)

\* addToHistory's default maxHistory
MaxHistory == 50
\* Math.max(0.1, ...) in tenths
MinZoom == 1
\* Math.min(5, ...) in tenths
MaxZoom == 50

----------------------------------------------------------------------------
(* Inputs *)

\* ids generateId can return for a layer (Math.random: collisions are possible)
GenIds == {"g1", "g2"}
LayerIds == {"background"} \union GenIds
\* the optional name argument of addLayer; "" is the absent (falsy) name
Names == {"", "Sky"}
\* Partial<EditorLayer> arguments of updateLayer
Updates == { [visible |-> FALSE], [locked |-> FALSE], [locked |-> TRUE],
            [id |-> "background"] }
Elements == {"stroke"}
Tools == {"move", "brush"}
\* zoom arguments in tenths: below, inside and above the clamp range
ZoomInputs == {0, 25, 70}
PanInputs == { [x |-> 4, y |-> -3] }

----------------------------------------------------------------------------
(* ImageEditorService *)

Throw(code, message, s) == [err |-> code, message |-> message, state |-> s]
Ok(s) == [err |-> "none", message |-> "", state |-> s]

defaultLayer ==
    [id |-> "background", name |-> "Background", visible |-> TRUE,
     opacity |-> 100, locked |-> TRUE, elements |-> <<>>]

createInitialState ==
    [originalUri |-> "file://img", tool |-> "move",
     layers |-> <<defaultLayer>>,
     history |-> << [timestamp |-> 0, layers |-> <<defaultLayer>>] >>,
     historyIndex |-> 0, isDirty |-> FALSE,
     zoom |-> 10, pan |-> [x |-> 0, y |-> 0],
     selectedLayer |-> "undefined"]

\* addToHistory with pop() for shift(): the newest entry is evicted
addToHistory_evictsNewest(s, newHistory) ==
    LET newHistoryArray == Append(SubSeq(s.history, 1, s.historyIndex + 1), newHistory)
        kept == IF Len(newHistoryArray) > MaxHistory
                THEN SubSeq(newHistoryArray, 1, Len(newHistoryArray) - 1)
                ELSE newHistoryArray
    IN [s EXCEPT !.history = kept, !.historyIndex = Len(kept) - 1]

\* addToHistory without the slice(0, historyIndex + 1): the redo branch survives
addToHistory_keepsRedo(s, newHistory) ==
    LET newHistoryArray == Append(s.history, newHistory)
        kept == IF Len(newHistoryArray) > MaxHistory
                THEN Tail(newHistoryArray)
                ELSE newHistoryArray
    IN [s EXCEPT !.history = kept, !.historyIndex = Len(kept) - 1]

\* addToHistory with >= for >: the history never holds maxHistory entries
addToHistory_capOffByOne(s, newHistory) ==
    LET newHistoryArray == Append(SubSeq(s.history, 1, s.historyIndex + 1), newHistory)
        kept == IF Len(newHistoryArray) >= MaxHistory
                THEN Tail(newHistoryArray)
                ELSE newHistoryArray
    IN [s EXCEPT !.history = kept, !.historyIndex = Len(kept) - 1]

\* addToHistory with the cursor taken before the shift()
addToHistory_staleIndex(s, newHistory) ==
    LET newHistoryArray == Append(SubSeq(s.history, 1, s.historyIndex + 1), newHistory)
        kept == IF Len(newHistoryArray) > MaxHistory
                THEN Tail(newHistoryArray)
                ELSE newHistoryArray
    IN [s EXCEPT !.history = kept, !.historyIndex = Len(newHistoryArray) - 1]

\* private addToHistory(state, newHistory, maxHistory = 50)
addToHistory(s, newHistory) ==
    LET newHistoryArray == Append(SubSeq(s.history, 1, s.historyIndex + 1), newHistory)
        kept == IF Len(newHistoryArray) > MaxHistory
                THEN Tail(newHistoryArray)
                ELSE newHistoryArray
    IN [s EXCEPT !.history = kept, !.historyIndex = Len(kept) - 1]

\* name || `Layer ${state.layers.length}`
LayerName(name, n) == IF name # "" THEN name ELSE "Layer " \o ToString(n)

addLayer(s, name, id, now) ==
    LET newLayer == [id |-> id, name |-> LayerName(name, Len(s.layers)),
                     visible |-> TRUE, opacity |-> 100, locked |-> FALSE,
                     elements |-> <<>>]
        newHistory == [timestamp |-> now, layers |-> Append(s.layers, newLayer)]
        newHistoryState == addToHistory(s, newHistory)
    IN Ok([newHistoryState EXCEPT !.layers = Append(s.layers, newLayer),
                                  !.selectedLayer = id,
                                  !.isDirty = TRUE])

\* removeLayer with < for <= in its guard
removeLayer_guardOff(s, layerId, now) ==
    IF Len(s.layers) < 1
    THEN Throw("VALIDATION_ERROR", "Cannot remove the last layer", s)
    ELSE LET newLayers == SelectSeq(s.layers, LAMBDA layer : layer.id # layerId)
             newHistory == [timestamp |-> now, layers |-> newLayers]
             newHistoryState == addToHistory(s, newHistory)
         IN IF newLayers = <<>>
            THEN Throw("TypeError", "Cannot read properties of undefined", s)
            ELSE Ok([newHistoryState EXCEPT !.layers = newLayers,
                                            !.selectedLayer = newLayers[1].id,
                                            !.isDirty = TRUE])

\* removeLayer with newLayers[0]?.id: an empty result is returned, not thrown on
removeLayer_noDeref(s, layerId, now) ==
    IF Len(s.layers) <= 1
    THEN Throw("VALIDATION_ERROR", "Cannot remove the last layer", s)
    ELSE LET newLayers == SelectSeq(s.layers, LAMBDA layer : layer.id # layerId)
             newHistory == [timestamp |-> now, layers |-> newLayers]
             newHistoryState == addToHistory(s, newHistory)
         IN Ok([newHistoryState EXCEPT
                  !.layers = newLayers,
                  !.selectedLayer = IF newLayers = <<>> THEN "undefined" ELSE newLayers[1].id,
                  !.isDirty = TRUE])

removeLayer(s, layerId, now) ==
    IF Len(s.layers) <= 1
    THEN Throw("VALIDATION_ERROR", "Cannot remove the last layer", s)
    ELSE LET newLayers == SelectSeq(s.layers, LAMBDA layer : layer.id # layerId)
             newHistory == [timestamp |-> now, layers |-> newLayers]
             newHistoryState == addToHistory(s, newHistory)
         IN IF newLayers = <<>>
            THEN \* newLayers[0].id of an empty array
                 Throw("TypeError", "Cannot read properties of undefined", s)
            ELSE Ok([newHistoryState EXCEPT !.layers = newLayers,
                                            !.selectedLayer = newLayers[1].id,
                                            !.isDirty = TRUE])

\* { ...layer, ...updates }
Merge(layer, updates) ==
    [f \in DOMAIN layer |-> IF f \in DOMAIN updates THEN updates[f] ELSE layer[f]]

updateLayer(s, layerId, updates, now) ==
    LET newLayers == [k \in DOMAIN s.layers |->
                        IF s.layers[k].id = layerId
                        THEN Merge(s.layers[k], updates)
                        ELSE s.layers[k]]
        newHistory == [timestamp |-> now, layers |-> newLayers]
        newHistoryState == addToHistory(s, newHistory)
    IN Ok([newHistoryState EXCEPT !.layers = newLayers, !.isDirty = TRUE])

\* state.layers.find(layer => layer.id === layerId): index of the first match, 0 if none
FindLayer(layers, layerId) ==
    LET hits == {k \in DOMAIN layers : layers[k].id = layerId}
    IN IF hits = {} THEN 0 ELSE CHOOSE k \in hits : \A j \in hits : k <= j

addElementToLayer(s, layerId, element, now) ==
    LET target == FindLayer(s.layers, layerId)
    IN IF target = 0
       THEN Throw("VALIDATION_ERROR", "Layer not found", s)
       ELSE IF s.layers[target].locked
       THEN Throw("VALIDATION_ERROR", "Cannot add element to locked layer", s)
       ELSE LET newLayers == [k \in DOMAIN s.layers |->
                                IF s.layers[k].id = layerId
                                THEN [s.layers[k] EXCEPT !.elements = Append(@, element)]
                                ELSE s.layers[k]]
                newHistory == [timestamp |-> now, layers |-> newLayers]
                newHistoryState == addToHistory(s, newHistory)
            IN Ok([newHistoryState EXCEPT !.layers = newLayers, !.isDirty = TRUE])

\* undo without `layers: historyState.layers`
undo_keepsLayers(s) ==
    IF s.historyIndex <= 0
    THEN s
    ELSE [s EXCEPT !.historyIndex = s.historyIndex - 1, !.isDirty = TRUE]

undo(s) ==
    IF s.historyIndex <= 0
    THEN s
    ELSE LET newIndex == s.historyIndex - 1
             historyState == s.history[newIndex + 1]
         IN [s EXCEPT !.layers = historyState.layers,
                      !.historyIndex = newIndex,
                      !.isDirty = TRUE]

redo(s) ==
    IF s.historyIndex >= Len(s.history) - 1
    THEN s
    ELSE LET newIndex == s.historyIndex + 1
             historyState == s.history[newIndex + 1]
         IN [s EXCEPT !.layers = historyState.layers,
                      !.historyIndex = newIndex,
                      !.isDirty = TRUE]

setTool(s, tool) == [s EXCEPT !.tool = tool]

Max(a, b) == IF a >= b THEN a ELSE b
Min(a, b) == IF a <= b THEN a ELSE b

\* the zoom change also marks the document dirty
setZoom_marksDirty(s, zoom) ==
    [s EXCEPT !.zoom = Max(MinZoom, Min(MaxZoom, zoom)), !.isDirty = TRUE]

setZoom(s, zoom) == [s EXCEPT !.zoom = Max(MinZoom, Min(MaxZoom, zoom))]

setPan(s, pan) == [s EXCEPT !.pan = pan]

canUndo(s) == s.historyIndex > 0

canRedo(s) == s.historyIndex < Len(s.history) - 1

----------------------------------------------------------------------------
(* useImageEditor: the handlers as functions of the edHook's React state     *)
(* [editorState, isProcessing, error] and of the editorState their closure *)
(* captured; the result is the React state after the handler's setters     *)

NoEditor == [none |-> TRUE]     \* editorState === null

\* useImageEditor.setTool
hookSetTool(hook, editorState, tool) ==
    IF editorState = NoEditor
    THEN hook
    ELSE [hook EXCEPT !.editorState = setTool(editorState, tool)]

\* useImageEditor.removeLayer
hookRemoveLayer(hook, editorState, layerId, now) ==
    IF editorState = NoEditor
    THEN hook
    ELSE LET r == removeLayer(editorState, layerId, now)
         IN IF r.err = "none"
            THEN [hook EXCEPT !.editorState = r.state]
            ELSE [hook EXCEPT !.error = r.message]

----------------------------------------------------------------------------
(* The client of the service: one action per service operation *)

Last(seq) == seq[Len(seq)]

\* the trail keeps the last TrailLen operations
Push(tr, rec) ==
    LET all == Append(tr, rec)
    IN IF Len(all) > TrailLen THEN SubSeq(all, Len(all) - TrailLen + 1, Len(all)) ELSE all

Free == filling = 0 /\ budget > 0

Entry(op, err) ==
    [op |-> op, err |-> err, pre |-> state.layers,
     idx |-> state.historyIndex, len |-> Len(state.history)]

\* a mutating operation returned r (or threw r.err) on the current state
Mutation(op, r) ==
    /\ state' = r.state
    /\ clock' = IF r.err = "none" THEN clock + 1 ELSE clock
    /\ trail' = Push(trail, Entry(op, r.err))
    /\ pureRun' = (pureRun /\ r.err = "none")

\* an operation that creates no history entry returned s
Plain(op, s) ==
    /\ state' = s
    /\ clock' = clock
    /\ trail' = Push(trail, Entry(op, "none"))
    /\ pureRun' = FALSE

Spend == budget' = budget - 1 /\ filling' = filling /\ UNCHANGED notEditor

AddLayer ==
    /\ Free
    /\ \E name \in Names, id \in GenIds : Mutation("addLayer", addLayer(state, name, id, clock + 1))
    /\ Spend

RemoveLayer ==
    /\ Free
    /\ \E layerId \in LayerIds : Mutation("removeLayer", removeLayer(state, layerId, clock + 1))
    /\ Spend

UpdateLayer ==
    /\ Free
    /\ \E layerId \in LayerIds, updates \in Updates :
          Mutation("updateLayer", updateLayer(state, layerId, updates, clock + 1))
    /\ Spend

AddElementToLayer ==
    /\ Free
    /\ \E layerId \in LayerIds, element \in Elements :
          Mutation("addElementToLayer", addElementToLayer(state, layerId, element, clock + 1))
    /\ Spend

Undo == Free /\ Plain("undo", undo(state)) /\ Spend

Redo == Free /\ Plain("redo", redo(state)) /\ Spend

SetTool == Free /\ (\E tool \in Tools : Plain("setTool", setTool(state, tool))) /\ Spend

SetZoom == Free /\ (\E zoom \in ZoomInputs : Plain("setZoom", setZoom(state, zoom))) /\ Spend

SetPan == Free /\ (\E pan \in PanInputs : Plain("setPan", setPan(state, pan))) /\ Spend

\* the fill of SpecCap: updateLayer('background', {visible: !visible}), FillOps times
Fill ==
    /\ filling > 0
    /\ Mutation("updateLayer",
                updateLayer(state, "background", [visible |-> ~state.layers[1].visible], clock + 1))
    /\ filling' = filling - 1
    /\ budget' = budget
    /\ UNCHANGED notEditor

InitEditor ==
    /\ state = createInitialState
    /\ clock = 0
    /\ trail = <<>>
    /\ pureRun = TRUE

\* no processBatch call is running
BatchIdle ==
    /\ operations = <<>>
    /\ concurrency = 0
    /\ bpc = "idle"
    /\ i = 0
    /\ status = <<>>
    /\ outcome = <<>>
    /\ completed = 0
    /\ successful = <<>>
    /\ failed = <<>>
    /\ progressLog = <<>>
    /\ errorLog = <<>>
    /\ returned = [totalProcessed |-> 0, successCount |-> 0, failureCount |-> 0]

\* no service call has been made
NoCall == [op |-> "none"]
NoSettle == [kind |-> "none"]
NoFs == [kind |-> "none"]

NoDimensions == [width |-> 0, height |-> 0]

\* an optional number: undefined, or a number
Undef == [defined |-> FALSE, val |-> 0]
Num(n) == [defined |-> TRUE, val |-> n]

\* a fraction num/den, den > 0
Rat(num, den) == [num |-> num, den |-> den]

\* no getCropFromSelection call has been made
NoCrop ==
    [done |-> FALSE,
     area |-> [x |-> 0, y |-> 0, width |-> Rat(0, 1), height |-> Rat(0, 1)]]
FreeConfig ==
    [lockAspectRatio |-> FALSE, aspectRatio |-> Rat(0, 1),
     minSize |-> [given |-> FALSE, width |-> 0, height |-> 0],
     maxSize |-> [given |-> FALSE, width |-> 0, height |-> 0]]
CropIdle ==
    /\ cropArgs = [startPoint |-> [x |-> 0, y |-> 0], endPoint |-> [x |-> 0, y |-> 0],
                   config |-> FreeConfig, bounds |-> [width |-> 0, height |-> 0]]
    /\ cropOut = NoCrop

\* the remaining components are not in use
\* no buffer allocated and no filter called
FilterIdle ==
    /\ heap = <<>>
    /\ filterLog = <<>>

\* no editor action invoked outside the one-at-a-time calls
EventsIdle ==
    /\ edRendered = NoEditor
    /\ edSequential = NoEditor
    /\ edPending = 0
    /\ edEvents = 0

\* no overlapping execute call
OverlapIdle ==
    /\ pendingOps = {}
    /\ executes = 0

OthersIdle == CropIdle /\ FilterIdle /\ EventsIdle /\ OverlapIdle

\* ImageViewerService.getDefaultOptions(); "absent" is a key the object does not have
getDefaultOptions ==
    [index |-> Num(0), backgroundColor |-> "#000000", onDismiss |-> "absent",
     onIndexChange |-> "absent"]

NoGalleryCall ==
    [op |-> "none", imageData |-> <<>>, startIndex |-> Undef, options |-> "undefined",
     index |-> 0]

\* useImageGallery() as its useState calls initialise it, with no call allowed
GalleryUnmounted ==
    /\ visible = FALSE
    /\ currentIndex = 0
    /\ images = <<>>
    /\ galleryOptions = getDefaultOptions
    /\ closure = getDefaultOptions
    /\ gcall = NoGalleryCall
    /\ openLog = <<>>
    /\ initialOptions = getDefaultOptions
    /\ indexChangeLog = <<>>
    /\ dismissLog = <<>>
    /\ gsteps = 0

\* the hooks' state as useState initialises it, with no action allowed
HooksUnmounted ==
    /\ edHook = [editorState |-> NoEditor, isProcessing |-> FALSE, error |-> "null"]
    /\ opHook = [isProcessing |-> FALSE, error |-> "null"]
    /\ hpc = "idle"
    /\ hcall = [hookName |-> "none", action |-> "none", returned |-> "void",
                before |-> NoEditor]
    /\ uncaught = 0
    /\ opFailed = "none"
    /\ hsteps = 0
    /\ GalleryUnmounted

ServiceIdle ==
    /\ svcPc = "idle"
    /\ call = NoCall
    /\ nativeLog = <<>>
    /\ fsResult = NoFs
    /\ settled = NoSettle
    /\ fitArgs = [width |-> 1, height |-> 1, maxWidth |-> 1, maxHeight |-> 1]
    /\ fitResult = NoDimensions
    /\ HooksUnmounted

Init ==
    InitEditor /\ filling = 0 /\ budget = MaxSteps /\ BatchIdle /\ ServiceIdle /\ OthersIdle

InitCap ==
    InitEditor /\ filling = FillOps /\ budget = TailSteps /\ BatchIdle /\ ServiceIdle
    /\ OthersIdle

Next ==
    \/ AddLayer \/ RemoveLayer \/ UpdateLayer \/ AddElementToLayer
    \/ Undo \/ Redo \/ SetTool \/ SetZoom \/ SetPan

NextCap == Fill \/ Next

\* the editor from its initial state, MaxSteps operations deep
Spec == Init /\ [][Next]_vars

\* the editor after FillOps mutations (history at its cap), TailSteps operations deep
SpecCap == InitCap /\ [][NextCap]_vars

----------------------------------------------------------------------------
(* ImageValidator and the services processBatchItem calls *)

\* a URI is [scheme, path]; the empty string is EmptyUri
Schemes == {"file://", "content://", "http://", "https://", "data:image/"}
EmptyUri == [scheme |-> "", path |-> ""]

validateUri(uri) ==
    IF uri = EmptyUri
    THEN [isValid |-> FALSE, error |-> "URI is required and must be a string"]
    ELSE IF uri.scheme \notin Schemes
    THEN [isValid |-> FALSE, error |-> "Invalid URI format"]
    ELSE [isValid |-> TRUE, error |-> ""]

\* the operation types processBatchItem's switch has a case for
KnownTypes == {"resize", "crop", "compress", "convert"}

\* the validation a service runs on its numeric arguments before the native call:
\* the code it throws, "none" when the arguments pass
serviceValidation(op) ==
    IF op.argsOk THEN "none"
    ELSE IF op.type \in {"resize", "crop"} THEN "INVALID_DIMENSIONS"
    ELSE "INVALID_QUALITY"

\* the operation reaches ImageManipulator.manipulateAsync
CallsNative(op) ==
    /\ validateUri(op.uri).isValid
    /\ op.type \in KnownTypes
    /\ serviceValidation(op) = "none"

----------------------------------------------------------------------------
(* ImageBatchService *)

\* options.concurrency || 3
DefaultConcurrency == 3
\* largest options.concurrency explored
MaxConcurrency == 3
\* longest operations list explored
MaxOps == 4

\* operations: [uri, type, argsOk, native]; native is what manipulateAsync does when it
\* is reached: "result" (resolves with a result), "throws", "nothing" (resolves with
\* undefined)
OpInputs ==
    { [uri |-> [scheme |-> "file://", path |-> "a.jpg"], type |-> "resize",
       argsOk |-> TRUE, native |-> "result"],
      [uri |-> [scheme |-> "https://", path |-> "b.png"], type |-> "crop",
       argsOk |-> TRUE, native |-> "throws"],
      [uri |-> [scheme |-> "ftp://", path |-> "c.jpg"], type |-> "resize",
       argsOk |-> TRUE, native |-> "result"],
      [uri |-> [scheme |-> "file://", path |-> "d.jpg"], type |-> "filter",
       argsOk |-> TRUE, native |-> "result"],
      [uri |-> [scheme |-> "content://", path |-> "e.jpg"], type |-> "compress",
       argsOk |-> FALSE, native |-> "result"],
      [uri |-> [scheme |-> "file://", path |-> "f.jpg"], type |-> "convert",
       argsOk |-> TRUE, native |-> "nothing"] }

\* what a processBatchItem promise settles with
Pending == [kind |-> "pending", code |-> ""]
Resolved(kind) == [kind |-> kind, code |-> ""]

\* processBatchItem without its try/catch: the promise rejects
Caught_rethrows(code) == [kind |-> "rejected", code |-> code]

\* the catch block: { uri, result: null, error }
Caught(code) == [kind |-> "error", code |-> code]

\* processBatchItem(operation), once the native call (if any) has settled
processBatchItem(op) ==
    IF ~validateUri(op.uri).isValid
    THEN Caught("INVALID_URI")
    ELSE IF op.type \in KnownTypes
    THEN IF serviceValidation(op) # "none"
         THEN Caught(serviceValidation(op))
         ELSE CASE op.native = "result" -> Resolved("ok")
                [] op.native = "throws" -> Caught("MANIPULATION_FAILED")
                [] op.native = "nothing" -> Resolved("empty")
    ELSE Caught("VALIDATION_ERROR")

EffectiveConcurrency == IF concurrency = 0 THEN DefaultConcurrency ELSE concurrency

\* operations.slice(idx, idx + conc) with one operation too many
Chunk_oneMore(idx, conc) == (idx + 1)..Min(idx + conc + 1, Len(operations))

\* operations.slice(idx, idx + conc), as the positions (1-based) of its operations
Chunk(idx, conc) == (idx + 1)..Min(idx + conc, Len(operations))

\* Promise.race for Promise.all: one settled member ends the wait
Joined_race(chunk) == \E k \in chunk : status[k] = "settled"

\* Promise.all(chunk.map(...)) has resolved
Joined(chunk) == \A k \in chunk : status[k] = "settled"

\* chunk.map(operation => this.processBatchItem(operation, options)): every member runs
\* up to its first pending await; a member that reaches the native call stays in flight
StartChunk ==
    /\ bpc = "loop"
    /\ i < Len(operations)
    /\ LET chunk == Chunk(i, EffectiveConcurrency)
           outcome1 == [k \in DOMAIN operations |->
                          IF k \in chunk /\ ~CallsNative(operations[k])
                          THEN processBatchItem(operations[k])
                          ELSE outcome[k]]
       IN /\ status' = [k \in DOMAIN operations |->
                          IF k \in chunk
                          THEN IF CallsNative(operations[k]) THEN "inflight" ELSE "settled"
                          ELSE status[k]]
          /\ outcome' = outcome1
          /\ bpc' = IF \E k \in chunk : outcome1[k].kind = "rejected"
                    THEN "rejected" ELSE "await"
    /\ UNCHANGED <<operations, concurrency, i, completed, successful, failed,
                   progressLog, errorLog, returned>>
    /\ UNCHANGED notBatch

\* the native call of operation k settles, and with it its processBatchItem promise
NativeSettles(k) ==
    /\ status[k] = "inflight"
    /\ status' = [status EXCEPT ![k] = "settled"]
    /\ outcome' = [outcome EXCEPT ![k] = processBatchItem(operations[k])]
    /\ bpc' = IF bpc = "await" /\ outcome'[k].kind = "rejected" THEN "rejected" ELSE bpc
    /\ UNCHANGED <<operations, concurrency, i, completed, successful, failed,
                   progressLog, errorLog, returned>>
    /\ UNCHANGED notBatch

\* onProgress called in the branch that pushes to successful only
ProgressCalls_onSuccessOnly(done, results) ==
    LET goods == SelectSeq(results, LAMBDA r : r.kind = "ok")
    IN [j \in 1..Len(goods) |->
          [completed |-> done + j, total |-> Len(operations), uri |-> goods[j].uri]]

\* the calls options.onProgress?.(completed, total, result.uri) of one chunk's loop,
\* `done` being the value of completed before the loop
ProgressCalls(done, results) ==
    [j \in 1..Len(results) |->
        [completed |-> done + j, total |-> Len(operations), uri |-> results[j].uri]]

\* `for (const result of chunkResults)` and the loop's i += concurrency
Collect ==
    /\ bpc = "await"
    /\ LET chunk == Chunk(i, EffectiveConcurrency)
           results == [j \in 1..Cardinality(chunk) |->
                         [k |-> i + j,
                          uri |-> operations[i + j].uri,
                          kind |-> outcome[i + j].kind,
                          code |-> outcome[i + j].code]]
           errors == SelectSeq(results, LAMBDA r : r.kind = "error")
           goods == SelectSeq(results, LAMBDA r : r.kind = "ok")
       IN /\ Joined(chunk)
          /\ completed' = completed + Len(results)
          /\ progressLog' = progressLog \o ProgressCalls(completed, results)
          /\ failed' = failed \o
                [j \in 1..Len(errors) |->
                    [uri |-> errors[j].uri, code |-> errors[j].code, k |-> errors[j].k]]
          /\ errorLog' = errorLog \o
                [j \in 1..Len(errors) |->
                    [uri |-> errors[j].uri, code |-> errors[j].code, k |-> errors[j].k]]
          /\ successful' = successful \o
                [j \in 1..Len(goods) |-> [uri |-> goods[j].uri, k |-> goods[j].k]]
    /\ i' = i + EffectiveConcurrency
    /\ bpc' = "loop"
    /\ UNCHANGED <<operations, concurrency, status, outcome, returned>>
    /\ UNCHANGED notBatch

\* the return statement
Return ==
    /\ bpc = "loop"
    /\ i >= Len(operations)
    /\ returned' = [totalProcessed |-> Len(operations),
                    successCount |-> Len(successful),
                    failureCount |-> Len(failed)]
    /\ bpc' = "done"
    /\ UNCHANGED <<operations, concurrency, i, status, outcome, completed, successful,
                   failed, progressLog, errorLog>>
    /\ UNCHANGED notBatch

\* processBatch has been called and stands at its first loop test
InitBatch ==
    /\ InitEditor /\ filling = 0 /\ budget = 0
    /\ ServiceIdle
    /\ OthersIdle
    /\ operations \in UNION { [1..m -> OpInputs] : m \in 0..MaxOps }
    /\ concurrency \in 0..MaxConcurrency
    /\ bpc = "loop"
    /\ i = 0
    /\ status = [k \in DOMAIN operations |-> "pending"]
    /\ outcome = [k \in DOMAIN operations |-> Pending]
    /\ completed = 0
    /\ successful = <<>>
    /\ failed = <<>>
    /\ progressLog = <<>>
    /\ errorLog = <<>>
    /\ returned = [totalProcessed |-> 0, successCount |-> 0, failureCount |-> 0]

NextBatch ==
    \/ StartChunk
    \/ \E k \in DOMAIN operations : NativeSettles(k)
    \/ Collect
    \/ Return

\* one processBatch call, for every operations list and concurrency within the bounds
SpecBatch == InitBatch /\ [][NextBatch]_vars

----------------------------------------------------------------------------
(* ImageUtils.fitToSize *)

\* Math.round of a non-negative fraction: halves go up
Round(q) == (2 * q.num + q.den) \div (2 * q.den)

\* only the width is clamped
fitToSize_widthOnly(width, height, maxWidth, maxHeight) ==
    LET wide == width > maxWidth
        w1 == IF wide THEN Rat(maxWidth, 1) ELSE Rat(width, 1)
        h1 == IF wide THEN Rat(maxWidth * height, width) ELSE Rat(height, 1)
    IN [width |-> Round(w1), height |-> Round(h1)]

\* aspectRatio = width / height; newHeight = newWidth / aspectRatio is
\* maxWidth * height / width, newWidth = newHeight * aspectRatio is
\* maxHeight * width / height
fitToSize(width, height, maxWidth, maxHeight) ==
    LET wide == width > maxWidth
        w1 == IF wide THEN Rat(maxWidth, 1) ELSE Rat(width, 1)
        h1 == IF wide THEN Rat(maxWidth * height, width) ELSE Rat(height, 1)
        tall == h1.num > maxHeight * h1.den
        h2 == IF tall THEN Rat(maxHeight, 1) ELSE h1
        w2 == IF tall THEN Rat(maxHeight * width, height) ELSE w1
    IN [width |-> Round(w2), height |-> Round(h2)]

\* largest width, height, maxWidth and maxHeight explored
MaxDim == 6

\* the README's example
ExampleFit == [width |-> 1920, height |-> 1080, maxWidth |-> 800, maxHeight |-> 600]

\* the arguments explored: every positive integer up to MaxDim, and the example
FitInputs ==
    [width : 1..MaxDim, height : 1..MaxDim, maxWidth : 1..MaxDim, maxHeight : 1..MaxDim]
        \cup {ExampleFit}

\* ImageUtils.fitToSize(width, height, maxWidth, maxHeight) is called and returns
FitToSize ==
    /\ fitResult = NoDimensions
    /\ fitResult' = fitToSize(fitArgs.width, fitArgs.height, fitArgs.maxWidth,
                              fitArgs.maxHeight)
    /\ UNCHANGED fitArgs
    /\ UNCHANGED notUtil

InitFit ==
    /\ InitEditor /\ filling = 0 /\ budget = 0
    /\ BatchIdle
    /\ svcPc = "idle" /\ call = NoCall /\ nativeLog = <<>> /\ fsResult = NoFs
    /\ settled = NoSettle
    /\ fitArgs \in FitInputs
    /\ fitResult = NoDimensions
    /\ HooksUnmounted
    /\ OthersIdle

NextFit == FitToSize

\* one fitToSize call for every argument tuple within the bounds
SpecFit == InitFit /\ [][NextFit]_vars

----------------------------------------------------------------------------
(* The service methods: what a call does up to its first await *)

validateDimensions(dimensions) ==
    IF dimensions.width.defined /\ dimensions.width.val <= 0
    THEN [isValid |-> FALSE, error |-> "Width must be a positive number"]
    ELSE IF dimensions.height.defined /\ dimensions.height.val <= 0
    THEN [isValid |-> FALSE, error |-> "Height must be a positive number"]
    ELSE [isValid |-> TRUE, error |-> ""]

\* quality in hundredths: the range [0, 1] is 0..100
validateQuality(quality) ==
    IF quality < 0 \/ quality > 100
    THEN [isValid |-> FALSE, error |-> "Quality must be a number between 0 and 1"]
    ELSE [isValid |-> TRUE, error |-> ""]

\* degrees: [isNumber, val]
validateRotation(degrees) ==
    IF ~degrees.isNumber
    THEN [isValid |-> FALSE, error |-> "Degrees must be a number"]
    ELSE [isValid |-> TRUE, error |-> ""]

\* IMAGE_CONSTANTS.defaultQuality, in hundredths
DefaultQuality == 80

ImageError(code) == [isImageError |-> TRUE, code |-> code]
\* an Error that is not an ImageError, as a collaborator throws it
PlainError == [isImageError |-> FALSE, code |-> ""]

\* ImageErrorHandler.handleUnknownError: the code of the ImageError it returns
handleUnknownError(error) ==
    IF error.isImageError THEN error.code ELSE "MANIPULATION_FAILED"

\* the try block throws before any await
Throws(code) == [kind |-> "throw", error |-> ImageError(code)]
\* the try block reaches `await ImageManipulator.manipulateAsync(uri, actions, ...)`
Invoke(uri, actions) == [kind |-> "native", request |-> [uri |-> uri, actions |-> actions]]
\* the try block reaches `await FileSystemService.copyToDocuments(uri, filename)`
Copy(uri) == [kind |-> "fs", request |-> [uri |-> uri, actions |-> <<>>]]

\* flip: [horizontal, vertical]
FlipActions(flip) ==
    (IF flip.horizontal THEN <<[flip |-> "Horizontal"]>> ELSE <<>>) \o
    (IF flip.vertical THEN <<[flip |-> "Vertical"]>> ELSE <<>>)

\* ImageTransformService, the version whose validator calls are statements
resize_unchecked(uri, width, height) ==
    Invoke(uri, <<[resize |-> [width |-> width, height |-> height]]>>)

crop_unchecked(uri, cropArea) == Invoke(uri, <<[crop |-> cropArea]>>)

rotate_unchecked(uri, degrees) == Invoke(uri, <<[rotate |-> degrees]>>)

flip_unchecked(uri, flip) == Invoke(uri, FlipActions(flip))

\* the crop is pushed before the resize
ManipulateActions_cropFirst(action) ==
    (IF action.crop.present
     THEN <<[crop |-> [width |-> action.crop.width, height |-> action.crop.height]]>>
     ELSE <<>>) \o
    (IF action.resize.present
     THEN <<[resize |-> [width |-> action.resize.width, height |-> action.resize.height]]>>
     ELSE <<>>) \o
    (IF action.rotate.present /\ ~(action.rotate.isNumber /\ action.rotate.val = 0)
     THEN <<[rotate |-> [isNumber |-> action.rotate.isNumber, val |-> action.rotate.val]]>>
     ELSE <<>>) \o
    (IF action.flip.present THEN FlipActions(action.flip) ELSE <<>>)

\* action: [resize, crop, rotate, flip], each with a `present` field; a rotate of 0 is
\* falsy and pushes nothing
ManipulateActions(action) ==
    (IF action.resize.present
     THEN <<[resize |-> [width |-> action.resize.width, height |-> action.resize.height]]>>
     ELSE <<>>) \o
    (IF action.crop.present
     THEN <<[crop |-> [width |-> action.crop.width, height |-> action.crop.height]]>>
     ELSE <<>>) \o
    (IF action.rotate.present /\ ~(action.rotate.isNumber /\ action.rotate.val = 0)
     THEN <<[rotate |-> [isNumber |-> action.rotate.isNumber, val |-> action.rotate.val]]>>
     ELSE <<>>) \o
    (IF action.flip.present THEN FlipActions(action.flip) ELSE <<>>)

manipulate_unchecked(uri, action) == Invoke(uri, ManipulateActions(action))

resizeToFit_unchecked(uri, maxWidth, maxHeight) ==
    LET dimensions == fitToSize(maxWidth, maxHeight, maxWidth, maxHeight)
    IN resize_unchecked(uri, Num(dimensions.width), Num(dimensions.height))

\* ImageTransformService, the version that tests every ValidationResult
resize_checked(uri, width, height) ==
    IF ~validateUri(uri).isValid THEN Throws("INVALID_URI")
    ELSE IF ~validateDimensions([width |-> width, height |-> height]).isValid
    THEN Throws("INVALID_DIMENSIONS")
    ELSE Invoke(uri, <<[resize |-> [width |-> width, height |-> height]]>>)

crop_checked(uri, cropArea) ==
    IF ~validateUri(uri).isValid THEN Throws("INVALID_URI")
    ELSE IF ~validateDimensions(cropArea).isValid THEN Throws("INVALID_DIMENSIONS")
    ELSE Invoke(uri, <<[crop |-> cropArea]>>)

rotate_checked(uri, degrees) ==
    IF ~validateUri(uri).isValid THEN Throws("INVALID_URI")
    ELSE IF ~validateRotation(degrees).isValid THEN Throws("VALIDATION_ERROR")
    ELSE Invoke(uri, <<[rotate |-> degrees]>>)

flip_checked(uri, flip) ==
    IF ~validateUri(uri).isValid THEN Throws("INVALID_URI")
    ELSE Invoke(uri, FlipActions(flip))

\* ImageAdvancedTransformService
manipulate_checked(uri, action) ==
    IF ~validateUri(uri).isValid THEN Throws("INVALID_URI")
    ELSE IF action.resize.present /\ ~validateDimensions(action.resize).isValid
    THEN Throws("INVALID_DIMENSIONS")
    ELSE IF action.crop.present /\ ~validateDimensions(action.crop).isValid
    THEN Throws("INVALID_DIMENSIONS")
    ELSE IF /\ action.rotate.present
            /\ ~(action.rotate.isNumber /\ action.rotate.val = 0)
            /\ ~validateRotation(action.rotate).isValid
    THEN Throws("VALIDATION_ERROR")
    ELSE Invoke(uri, ManipulateActions(action))

resizeToFit_checked(uri, maxWidth, maxHeight) ==
    IF ~validateDimensions([width |-> Num(maxWidth), height |-> Num(maxHeight)]).isValid
    THEN Throws("INVALID_DIMENSIONS")
    ELSE LET dimensions == fitToSize(maxWidth, maxHeight, maxWidth, maxHeight)
         IN resize_checked(uri, Num(dimensions.width), Num(dimensions.height))

\* ImageConversionService, the copy whose validator calls are statements
compress_unchecked(uri, quality) == Invoke(uri, <<>>)

convertFormat_unchecked(uri, quality) == Invoke(uri, <<>>)

\* ImageConversionService, the version that tests every ValidationResult; quality is
\* an optional number
compress_checked(uri, quality) ==
    LET q == IF quality.defined THEN quality.val ELSE DefaultQuality
    IN IF ~validateUri(uri).isValid THEN Throws("INVALID_URI")
       ELSE IF ~validateQuality(q).isValid THEN Throws("INVALID_QUALITY")
       ELSE Invoke(uri, <<>>)

convertFormat_checked(uri, quality) ==
    LET compressQuality == IF quality.defined THEN quality.val ELSE DefaultQuality
    IN IF ~validateUri(uri).isValid THEN Throws("INVALID_URI")
       ELSE IF ~validateQuality(compressQuality).isValid THEN Throws("INVALID_QUALITY")
       ELSE Invoke(uri, <<>>)

\* ImageStorageService.saveImage up to its await
saveImage(uri) ==
    IF ~validateUri(uri).isValid THEN Throws("INVALID_URI") ELSE Copy(uri)

\* ImageStorageService.saveImage after its await: fs is what copyToDocuments did,
\* [kind |-> "returns", success, uri] or [kind |-> "throws", ...]
saveImageSettles(fs) ==
    IF fs.kind = "throws"
    THEN [kind |-> "rejected", code |-> handleUnknownError(PlainError)]
    ELSE IF ~fs.success \/ fs.uri = ""
    THEN [kind |-> "rejected", code |-> handleUnknownError(ImageError("STORAGE_FAILED"))]
    ELSE [kind |-> "fulfilled", code |-> ""]

----------------------------------------------------------------------------
(* One service call and its collaborators *)

Uris == {EmptyUri, [scheme |-> "ftp://", path |-> "a.jpg"],
         [scheme |-> "file://", path |-> "a.jpg"]}
Impls == {"unchecked", "checked"}
OptDims == {Undef, Num(0), Num(100)}
CropAreas == {[originX |-> 0, originY |-> 0, width |-> Num(w), height |-> Num(h)] :
                w \in {-5, 50}, h \in {0, 50}}
Degrees == {[isNumber |-> TRUE, val |-> 90], [isNumber |-> FALSE, val |-> 0]}
Flips == {[horizontal |-> TRUE, vertical |-> FALSE], [horizontal |-> TRUE, vertical |-> TRUE]}
Qualities == {Undef, Num(-10), Num(50), Num(150)}

NoResize == [present |-> FALSE, width |-> Undef, height |-> Undef]
NoRotate == [present |-> FALSE, isNumber |-> TRUE, val |-> 0]
NoFlip == [present |-> FALSE, horizontal |-> FALSE, vertical |-> FALSE]
\* the order in which the caller wrote the keys of the action object
KeyOrders == {<<"resize", "crop", "rotate", "flip">>, <<"flip", "rotate", "crop", "resize">>}

\* the action arguments of manipulate: every combination of a valid resize, crop,
\* rotate and flip, a rotate of 0 degrees, and the arguments that fail a validation
ManipulateInputs ==
    {[resize |-> r, crop |-> c, rotate |-> d, flip |-> f, keys |-> o] :
        r \in {NoResize, [present |-> TRUE, width |-> Num(100), height |-> Undef]},
        c \in {NoResize, [present |-> TRUE, width |-> Num(50), height |-> Num(50)]},
        d \in {NoRotate, [present |-> TRUE, isNumber |-> TRUE, val |-> 90]},
        f \in {NoFlip, [present |-> TRUE, horizontal |-> TRUE, vertical |-> TRUE]},
        o \in KeyOrders}
    \cup
    {[resize |-> [present |-> TRUE, width |-> Num(0), height |-> Undef],
      crop |-> NoResize, rotate |-> NoRotate, flip |-> NoFlip, keys |-> <<"resize", "crop", "rotate", "flip">>],
     [resize |-> NoResize,
      crop |-> [present |-> TRUE, width |-> Num(50), height |-> Num(-5)],
      rotate |-> NoRotate, flip |-> NoFlip, keys |-> <<"resize", "crop", "rotate", "flip">>],
     [resize |-> NoResize, crop |-> NoResize,
      rotate |-> [present |-> TRUE, isNumber |-> FALSE, val |-> 0], flip |-> NoFlip,
      keys |-> <<"resize", "crop", "rotate", "flip">>],
     [resize |-> [present |-> TRUE, width |-> Num(100), height |-> Undef],
      crop |-> NoResize,
      rotate |-> [present |-> TRUE, isNumber |-> TRUE, val |-> 0],
      flip |-> [present |-> TRUE, horizontal |-> FALSE, vertical |-> TRUE],
      keys |-> <<"resize", "crop", "rotate", "flip">>]}

\* the boxes resizeToFit is called with, and the dimensions of the image at the uri
Boxes == {[maxWidth |-> 800, maxHeight |-> 600], [maxWidth |-> 600, maxHeight |-> 800],
          [maxWidth |-> 100, maxHeight |-> 100]}
Sources == {[width |-> 1920, height |-> 1080], [width |-> 400, height |-> 300]}

\* the calls explored: [op, impl, uri, args]
CallInputs ==
    UNION {
      {[op |-> "resize", impl |-> m, uri |-> u, args |-> [width |-> w, height |-> h]] :
          m \in Impls, u \in Uris, w \in OptDims, h \in OptDims},
      {[op |-> "crop", impl |-> m, uri |-> u, args |-> a] :
          m \in Impls, u \in Uris, a \in CropAreas},
      {[op |-> "rotate", impl |-> m, uri |-> u, args |-> d] :
          m \in Impls, u \in Uris, d \in Degrees},
      {[op |-> "flip", impl |-> m, uri |-> u, args |-> f] :
          m \in Impls, u \in Uris, f \in Flips},
      {[op |-> "manipulate", impl |-> m, uri |-> u, args |-> a] :
          m \in Impls, u \in Uris, a \in ManipulateInputs},
      {[op |-> "compress", impl |-> m, uri |-> u, args |-> q] :
          m \in Impls, u \in Uris, q \in Qualities},
      {[op |-> "convertFormat", impl |-> m, uri |-> u, args |-> q] :
          m \in Impls, u \in Uris, q \in Qualities},
      {[op |-> "resizeToFit", impl |-> m, uri |-> u,
        args |-> [maxWidth |-> b.maxWidth, maxHeight |-> b.maxHeight, source |-> s]] :
          m \in Impls, u \in Uris, b \in Boxes, s \in Sources},
      {[op |-> "saveImage", impl |-> "checked", uri |-> u, args |-> Undef] : u \in Uris} }

\* the method's try block, up to its first await
Body(c) ==
    LET un == c.impl = "unchecked"
    IN CASE c.op = "resize" ->
              IF un THEN resize_unchecked(c.uri, c.args.width, c.args.height)
              ELSE resize_checked(c.uri, c.args.width, c.args.height)
         [] c.op = "crop" ->
              IF un THEN crop_unchecked(c.uri, c.args) ELSE crop_checked(c.uri, c.args)
         [] c.op = "rotate" ->
              IF un THEN rotate_unchecked(c.uri, c.args) ELSE rotate_checked(c.uri, c.args)
         [] c.op = "flip" ->
              IF un THEN flip_unchecked(c.uri, c.args) ELSE flip_checked(c.uri, c.args)
         [] c.op = "manipulate" ->
              IF un THEN manipulate_unchecked(c.uri, c.args)
              ELSE manipulate_checked(c.uri, c.args)
         [] c.op = "compress" ->
              IF un THEN compress_unchecked(c.uri, c.args)
              ELSE compress_checked(c.uri, c.args)
         [] c.op = "convertFormat" ->
              IF un THEN convertFormat_unchecked(c.uri, c.args)
              ELSE convertFormat_checked(c.uri, c.args)
         [] c.op = "resizeToFit" ->
              IF un THEN resizeToFit_unchecked(c.uri, c.args.maxWidth, c.args.maxHeight)
              ELSE resizeToFit_checked(c.uri, c.args.maxWidth, c.args.maxHeight)
         [] c.op = "saveImage" -> saveImage(c.uri)

\* what FileSystemService.copyToDocuments can do
FsOutcomes ==
    {[kind |-> "returns", success |-> TRUE, uri |-> "documents/a.jpg"],
     [kind |-> "returns", success |-> FALSE, uri |-> ""],
     [kind |-> "returns", success |-> TRUE, uri |-> ""],
     [kind |-> "throws", success |-> FALSE, uri |-> ""]}

\* a caller invokes a service method; it runs to its first await or to its throw, and
\* `catch (error) { throw handleUnknownError(error, ...) }` rejects the call
Call ==
    /\ svcPc \in {"idle", "settled"}
    /\ \E c \in CallInputs :
         LET b == Body(c)
         IN /\ call' = c
            /\ fsResult' = NoFs
            /\ IF b.kind = "throw"
               THEN /\ svcPc' = "settled"
                    /\ nativeLog' = <<>>
                    /\ settled' = [kind |-> "rejected", code |-> handleUnknownError(b.error)]
               ELSE /\ svcPc' = b.kind
                    /\ nativeLog' = IF b.kind = "native" THEN <<b.request>> ELSE <<>>
                    /\ settled' = NoSettle
    /\ UNCHANGED notService

\* manipulateAsync resolves and the method returns its result
NativeResolves ==
    /\ svcPc = "native"
    /\ svcPc' = "settled"
    /\ settled' = [kind |-> "fulfilled", code |-> ""]
    /\ UNCHANGED <<call, nativeLog, fsResult>>
    /\ UNCHANGED notService

\* manipulateAsync rejects with an Error of its own
NativeRejects ==
    /\ svcPc = "native"
    /\ svcPc' = "settled"
    /\ settled' = [kind |-> "rejected", code |-> handleUnknownError(PlainError)]
    /\ UNCHANGED <<call, nativeLog, fsResult>>
    /\ UNCHANGED notService

\* copyToDocuments settles and saveImage runs to its end
FsSettles ==
    /\ svcPc = "fs"
    /\ \E fs \in FsOutcomes :
         /\ fsResult' = fs
         /\ settled' = saveImageSettles(fs)
    /\ svcPc' = "settled"
    /\ UNCHANGED <<call, nativeLog>>
    /\ UNCHANGED notService

InitService ==
    /\ InitEditor /\ filling = 0 /\ budget = 0
    /\ BatchIdle
    /\ ServiceIdle
    /\ OthersIdle

NextService == Call \/ NativeResolves \/ NativeRejects \/ FsSettles

\* service calls one after the other, for every call within the input sets
SpecService == InitService /\ [][NextService]_vars

----------------------------------------------------------------------------
(* The hooks: useImageOperation.execute and useImageEditor *)

\* actions explored after the mount
MaxHookSteps == 3

\* what an operation passed to execute can throw: an ImageError, another Error, a value
\* that is no Error
OpErrors == {[kind |-> "ImageError", message |-> "Invalid URI format"],
             [kind |-> "Error", message |-> "native failure"],
             [kind |-> "value", message |-> ""]}

\* the errorMessage argument of execute
ErrorMessage == "Failed to resize"

\* canvasRef.current: null, a canvas without a 2d context, a working canvas
Canvases == {"null", "noContext", "ok"}

HookIdle == hpc = "idle" /\ hsteps > 0

\* an action of edHook h starts
Started(h, action) ==
    /\ hcall' = [hookName |-> h, action |-> action, returned |-> "pending",
                 before |-> edHook.editorState]
    /\ hsteps' = hsteps - 1

\* a synchronous useImageEditor action returned undefined with the edHook state h
Returned(action, h) ==
    /\ edHook' = h
    /\ hcall' = [hookName |-> "useImageEditor", action |-> action, returned |-> "void",
                 before |-> edHook.editorState]
    /\ hsteps' = hsteps - 1
    /\ hpc' = "idle"
    /\ UNCHANGED <<opHook, uncaught>>
    /\ UNCHANGED notHook

\* execute(operation, errorMessage) up to `await operation()`
HookExecute ==
    /\ HookIdle
    /\ Started("useImageOperation", "execute")
    /\ opHook' = [isProcessing |-> TRUE, error |-> "null"]
    /\ hpc' = "execute"
    /\ opFailed' = "none"
    /\ UNCHANGED <<edHook, uncaught>>
    /\ UNCHANGED notHook

\* the operation resolves: return result, then finally
HookOperationResolves ==
    /\ hpc = "execute"
    /\ hcall' = [hcall EXCEPT !.returned = "result"]
    /\ opHook' = [opHook EXCEPT !.isProcessing = FALSE]
    /\ hpc' = "idle"
    /\ UNCHANGED <<edHook, uncaught, opFailed, hsteps>>
    /\ UNCHANGED notHook

\* the message execute's catch block stores for err
ExecuteMessage(err) == IF err.kind = "value" THEN ErrorMessage ELSE err.message

\* the operation throws or rejects: catch, return null, then finally
HookOperationRejects ==
    /\ hpc = "execute"
    /\ \E err \in OpErrors :
         /\ opHook' = [isProcessing |-> FALSE, error |-> ExecuteMessage(err)]
         /\ opFailed' = ExecuteMessage(err)
    /\ hcall' = [hcall EXCEPT !.returned = "null"]
    /\ hpc' = "idle"
    /\ UNCHANGED <<edHook, uncaught, hsteps>>
    /\ UNCHANGED notHook

\* initializeEditor(uri) up to `await getImageDimensions(uri)`
HookInitializeEditor ==
    /\ HookIdle
    /\ Started("useImageEditor", "initializeEditor")
    /\ edHook' = [edHook EXCEPT !.error = "null", !.isProcessing = TRUE]
    /\ hpc' = "load"
    /\ opFailed' = "none"
    /\ UNCHANGED <<opHook, uncaught>>
    /\ UNCHANGED notHook

\* img.onload fires: the promise resolves and the initial state is stored
HookImageLoads ==
    /\ hpc = "load"
    /\ edHook' = [edHook EXCEPT !.editorState = createInitialState, !.isProcessing = FALSE]
    /\ hcall' = [hcall EXCEPT !.returned = "void"]
    /\ hpc' = "idle"
    /\ UNCHANGED <<opHook, uncaught, opFailed, hsteps>>
    /\ UNCHANGED notHook

\* the image cannot be loaded: no onerror handler is set, the promise stays pending
HookImageFails ==
    /\ hpc = "load"
    /\ opFailed' = "Failed to initialize editor"
    /\ hpc' = "hung"
    /\ UNCHANGED <<edHook, opHook, hcall, uncaught, hsteps>>
    /\ UNCHANGED notHook

HookSetTool ==
    /\ HookIdle
    /\ \E tool \in Tools :
         Returned("setTool", hookSetTool(edHook, edHook.editorState, tool))
    /\ opFailed' = "none"

HookAddLayer ==
    /\ HookIdle
    /\ \E name \in Names, id \in GenIds :
         Returned("addLayer",
                  IF edHook.editorState = NoEditor THEN edHook
                  ELSE [edHook EXCEPT !.editorState =
                          addLayer(edHook.editorState, name, id, MaxHookSteps - hsteps + 1).state])
    /\ opFailed' = "none"

HookRemoveLayer ==
    /\ HookIdle
    /\ \E layerId \in LayerIds :
         LET now == MaxHookSteps - hsteps + 1
             r == removeLayer(edHook.editorState, layerId, now)
         IN /\ Returned("removeLayer", hookRemoveLayer(edHook, edHook.editorState, layerId, now))
            /\ opFailed' = IF edHook.editorState # NoEditor /\ r.err # "none"
                           THEN r.message ELSE "none"

HookUndo ==
    /\ HookIdle
    /\ Returned("undo", IF edHook.editorState = NoEditor THEN edHook
                        ELSE [edHook EXCEPT !.editorState = undo(edHook.editorState)])
    /\ opFailed' = "none"

HookRedo ==
    /\ HookIdle
    /\ Returned("redo", IF edHook.editorState = NoEditor THEN edHook
                        ELSE [edHook EXCEPT !.editorState = redo(edHook.editorState)])
    /\ opFailed' = "none"

\* exportImage(exportOptions) up to `await composeAndExport(...)`: it returns null at once
\* without an editor state or a canvas; composeAndExport throws without a 2d context,
\* which the catch block turns into the error state; otherwise canvas.toBlob is called
HookExportImage ==
    /\ HookIdle
    /\ \E canvas \in Canvases :
         IF edHook.editorState = NoEditor \/ canvas = "null"
         THEN /\ hcall' = [hookName |-> "useImageEditor", action |-> "exportImage",
                           returned |-> "null", before |-> edHook.editorState]
              /\ hsteps' = hsteps - 1
              /\ opFailed' = "none"
              /\ UNCHANGED <<edHook, hpc>>
         ELSE IF canvas = "noContext"
         THEN /\ hcall' = [hookName |-> "useImageEditor", action |-> "exportImage",
                           returned |-> "null", before |-> edHook.editorState]
              /\ hsteps' = hsteps - 1
              /\ edHook' = [edHook EXCEPT !.error = "Failed to get canvas context",
                                      !.isProcessing = FALSE]
              /\ opFailed' = "Failed to get canvas context"
              /\ UNCHANGED hpc
         ELSE /\ Started("useImageEditor", "exportImage")
              /\ edHook' = [edHook EXCEPT !.error = "null", !.isProcessing = TRUE]
              /\ opFailed' = "none"
              /\ hpc' = "toBlob"
    /\ UNCHANGED <<opHook, uncaught>>
    /\ UNCHANGED notHook

\* the toBlob callback runs with a blob: composeAndExport resolves; without an onSave
\* callback exportImage returns the result, with one it awaits onSave(result)
HookBlobArrives ==
    /\ hpc = "toBlob"
    /\ \E onSave \in BOOLEAN :
         IF onSave
         THEN hpc' = "onSave" /\ UNCHANGED <<edHook, hcall>>
         ELSE /\ hpc' = "idle"
              /\ edHook' = [edHook EXCEPT !.isProcessing = FALSE]
              /\ hcall' = [hcall EXCEPT !.returned = "result"]
    /\ UNCHANGED <<opHook, uncaught, opFailed, hsteps>>
    /\ UNCHANGED notHook

\* the toBlob callback runs with null: it throws inside the callback, where neither the
\* promise of composeAndExport nor the try block of exportImage sees it
HookBlobMissing ==
    /\ hpc = "toBlob"
    /\ uncaught' = uncaught + 1
    /\ opFailed' = "Failed to create blob"
    /\ hpc' = "hung"
    /\ UNCHANGED <<edHook, opHook, hcall, hsteps>>
    /\ UNCHANGED notHook

HookOnSaveResolves ==
    /\ hpc = "onSave"
    /\ edHook' = [edHook EXCEPT !.isProcessing = FALSE]
    /\ hcall' = [hcall EXCEPT !.returned = "result"]
    /\ hpc' = "idle"
    /\ UNCHANGED <<opHook, uncaught, opFailed, hsteps>>
    /\ UNCHANGED notHook

\* onSave rejects with an Error: the catch block of exportImage
HookOnSaveRejects ==
    /\ hpc = "onSave"
    /\ edHook' = [edHook EXCEPT !.error = "save failed", !.isProcessing = FALSE]
    /\ opFailed' = "save failed"
    /\ hcall' = [hcall EXCEPT !.returned = "null"]
    /\ hpc' = "idle"
    /\ UNCHANGED <<opHook, uncaught, hsteps>>
    /\ UNCHANGED notHook

\* cancel(), with an onCancel that returns
HookCancel ==
    /\ HookIdle
    /\ Returned("cancel", [edHook EXCEPT !.editorState = NoEditor, !.error = "null"])
    /\ opFailed' = "none"

InitHook ==
    /\ InitEditor /\ filling = 0 /\ budget = 0
    /\ BatchIdle
    /\ svcPc = "idle" /\ call = NoCall /\ nativeLog = <<>> /\ fsResult = NoFs
    /\ settled = NoSettle
    /\ fitArgs = [width |-> 1, height |-> 1, maxWidth |-> 1, maxHeight |-> 1]
    /\ fitResult = NoDimensions
    /\ edHook = [editorState |-> NoEditor, isProcessing |-> FALSE, error |-> "null"]
    /\ opHook = [isProcessing |-> FALSE, error |-> "null"]
    /\ hpc = "idle"
    /\ hcall = [hookName |-> "none", action |-> "none", returned |-> "void",
                before |-> NoEditor]
    /\ uncaught = 0
    /\ opFailed = "none"
    /\ hsteps = MaxHookSteps
    /\ GalleryUnmounted
    /\ OthersIdle

NextHook ==
    \/ HookExecute \/ HookOperationResolves \/ HookOperationRejects
    \/ HookInitializeEditor \/ HookImageLoads \/ HookImageFails
    \/ HookSetTool \/ HookAddLayer \/ HookRemoveLayer \/ HookUndo \/ HookRedo
    \/ HookExportImage \/ HookBlobArrives \/ HookBlobMissing
    \/ HookOnSaveResolves \/ HookOnSaveRejects \/ HookCancel

\* a mounted component calling the hooks' actions, one at a time
SpecHook == InitHook /\ [][NextHook]_vars

\* the same, where the browser does deliver what a started operation waits on: the
\* image's load or error event, the toBlob callback, the settling of onSave
SpecHookFair ==
    /\ SpecHook
    /\ WF_vars(HookImageLoads \/ HookImageFails)
    /\ WF_vars(HookBlobArrives \/ HookBlobMissing)
    /\ WF_vars(HookOnSaveResolves \/ HookOnSaveRejects)

----------------------------------------------------------------------------
(* useImageGallery *)

\* calls explored after the mount
MaxGallerySteps == 3

\* a bare uri string of the imageData argument
UriItem(uri) ==
    [isString |-> TRUE, uri |-> uri, title |-> "absent", description |-> "absent",
     width |-> Undef, height |-> Undef, extra |-> "absent"]
\* an ImageViewerItem of the imageData argument; extra is a key outside the type
MetaItem(uri, title, width, extra) ==
    [isString |-> FALSE, uri |-> uri, title |-> title, description |-> "absent",
     width |-> width, height |-> Undef, extra |-> extra]

ImageLists ==
    {<<>>,
     <<UriItem("u1"), UriItem("u2")>>,
     <<MetaItem("u2", "Second", Num(640), "x"), MetaItem("u1", "absent", Undef, "absent")>>}

\* ImageViewerService.prepareImages
prepareImages(uris) ==
    [k \in DOMAIN uris |->
        [uri |-> uris[k].uri, title |-> "absent", description |-> "absent",
         width |-> Undef, height |-> Undef]]

\* ImageViewerService.prepareImagesWithMetadata
prepareImagesWithMetadata(items) ==
    [k \in DOMAIN items |->
        [uri |-> items[k].uri, title |-> items[k].title,
         description |-> items[k].description,
         width |-> items[k].width, height |-> items[k].height]]

\* typeof imageData[0] === 'string' ? prepareImages(...) : prepareImagesWithMetadata(...)
preparedImages(imageData) ==
    IF imageData # <<>> /\ imageData[1].isString
    THEN prepareImages(imageData)
    ELSE prepareImagesWithMetadata(imageData)

\* the options argument of open; given is FALSE for an omitted argument
NoOptions ==
    [given |-> FALSE, index |-> Undef, backgroundColor |-> "absent",
     onDismiss |-> "absent", onIndexChange |-> "absent"]
OpenOptions ==
    {NoOptions,
     [NoOptions EXCEPT !.given = TRUE, !.onIndexChange = "f"],
     [NoOptions EXCEPT !.given = TRUE, !.backgroundColor = "#ffffff"],
     [NoOptions EXCEPT !.given = TRUE, !.index = Num(2)],
     [NoOptions EXCEPT !.given = TRUE, !.onIndexChange = "g", !.onDismiss = "h"]}

\* the startIndex argument of open: omitted, or a number
StartIndexes == {Undef, Num(1)}
\* the index argument of setIndex
Indexes == {0, 2}

\* the defaultOptions argument of useImageGallery: omitted, or an object with callbacks
DefaultOptionsInputs ==
    {getDefaultOptions,
     [index |-> Undef, backgroundColor |-> "absent", onDismiss |-> "d",
      onIndexChange |-> "c"]}

\* the merge drops the keys of the captured options
Spread_replaces(base, options) ==
    [index |-> options.index, backgroundColor |-> options.backgroundColor,
     onDismiss |-> options.onDismiss, onIndexChange |-> options.onIndexChange]

\* { ...galleryOptions, ...options }
Spread(base, options) ==
    [index |-> IF options.index.defined THEN options.index ELSE base.index,
     backgroundColor |-> IF options.backgroundColor # "absent"
                         THEN options.backgroundColor ELSE base.backgroundColor,
     onDismiss |-> IF options.onDismiss # "absent"
                   THEN options.onDismiss ELSE base.onDismiss,
     onIndexChange |-> IF options.onIndexChange # "absent"
                       THEN options.onIndexChange ELSE base.onIndexChange]

\* open sets the index to startIndex alone
openIndex_startOnly(startIndex, options) ==
    IF startIndex.defined THEN startIndex.val ELSE 0

\* options?.index ?? startIndex, with `startIndex: number = 0`
openIndex(startIndex, options) ==
    IF options.given /\ options.index.defined THEN options.index.val
    ELSE IF startIndex.defined THEN startIndex.val
    ELSE 0

GalleryFree == gsteps > 0

\* open(imageData, startIndex, options), as the callback of the last render runs it
Open ==
    /\ GalleryFree
    /\ \E imageData \in ImageLists, startIndex \in StartIndexes, options \in OpenOptions :
         /\ images' = preparedImages(imageData)
         /\ currentIndex' = openIndex(startIndex, options)
         /\ galleryOptions' = IF options.given THEN Spread(closure, options)
                              ELSE galleryOptions
         /\ gcall' = [op |-> "open", imageData |-> imageData, startIndex |-> startIndex,
                      options |-> options, index |-> 0]
         /\ openLog' = Append(openLog, options)
    /\ visible' = TRUE
    /\ gsteps' = gsteps - 1
    /\ UNCHANGED <<closure, initialOptions, indexChangeLog, dismissLog>>
    /\ UNCHANGED notGallery

\* close(), as the callback of the last render runs it
Close ==
    /\ GalleryFree
    /\ visible' = FALSE
    /\ dismissLog' = IF closure.onDismiss # "absent"
                     THEN Append(dismissLog, closure.onDismiss) ELSE dismissLog
    /\ gcall' = [NoGalleryCall EXCEPT !.op = "close"]
    /\ gsteps' = gsteps - 1
    /\ UNCHANGED <<currentIndex, images, galleryOptions, closure, openLog, initialOptions,
                   indexChangeLog>>
    /\ UNCHANGED notGallery

\* setIndex(index), as the callback of the last render runs it
SetIndex ==
    /\ GalleryFree
    /\ \E index \in Indexes :
         /\ currentIndex' = index
         /\ indexChangeLog' =
               IF closure.onIndexChange # "absent"
               THEN Append(indexChangeLog, [callback |-> closure.onIndexChange,
                                            index |-> index])
               ELSE indexChangeLog
         /\ gcall' = [NoGalleryCall EXCEPT !.op = "setIndex", !.index = index]
    /\ gsteps' = gsteps - 1
    /\ UNCHANGED <<visible, images, galleryOptions, closure, openLog, initialOptions,
                   dismissLog>>
    /\ UNCHANGED notGallery

\* the component renders again: useCallback([galleryOptions]) hands out callbacks
\* that capture the stored options
Render ==
    /\ closure # galleryOptions
    /\ closure' = galleryOptions
    /\ UNCHANGED <<visible, currentIndex, images, galleryOptions, gcall, openLog,
                   initialOptions, indexChangeLog, dismissLog, gsteps>>
    /\ UNCHANGED notGallery

InitGallery ==
    /\ InitEditor /\ filling = 0 /\ budget = 0
    /\ BatchIdle
    /\ svcPc = "idle" /\ call = NoCall /\ nativeLog = <<>> /\ fsResult = NoFs
    /\ settled = NoSettle
    /\ fitArgs = [width |-> 1, height |-> 1, maxWidth |-> 1, maxHeight |-> 1]
    /\ fitResult = NoDimensions
    /\ edHook = [editorState |-> NoEditor, isProcessing |-> FALSE, error |-> "null"]
    /\ opHook = [isProcessing |-> FALSE, error |-> "null"]
    /\ hpc = "idle"
    /\ hcall = [hookName |-> "none", action |-> "none", returned |-> "void",
                before |-> NoEditor]
    /\ uncaught = 0
    /\ opFailed = "none"
    /\ hsteps = 0
    /\ visible = FALSE
    /\ currentIndex = 0
    /\ images = <<>>
    /\ initialOptions \in DefaultOptionsInputs
    /\ galleryOptions = initialOptions
    /\ closure = initialOptions
    /\ gcall = NoGalleryCall
    /\ openLog = <<>>
    /\ indexChangeLog = <<>>
    /\ dismissLog = <<>>
    /\ gsteps = MaxGallerySteps
    /\ OthersIdle

NextGallery == Open \/ Close \/ SetIndex \/ Render

\* a mounted component calling open, close and setIndex, re-rendering at any time
SpecGallery == InitGallery /\ [][NextGallery]_vars

----------------------------------------------------------------------------
(* useImageEditor actions invoked between renders *)

\* editor actions invoked on the mounted component
MaxEvents == 3

\* addLayer(name), as the callback of the last render runs it: it reads the editorState
\* that render captured and stores the result with setEditorState(newState)
EventAddLayer ==
    /\ edEvents < MaxEvents
    /\ \E name \in Names, id \in GenIds :
        LET now == edEvents + 1
        IN /\ edHook' = IF edRendered = NoEditor THEN edHook
                        ELSE [edHook EXCEPT !.editorState =
                                 addLayer(edRendered, name, id, now).state]
           /\ edSequential' = addLayer(edSequential, name, id, now).state
    /\ edPending' = edPending + 1
    /\ edEvents' = edEvents + 1
    /\ UNCHANGED <<edRendered, opHook, hpc, hcall, uncaught, opFailed, hsteps>>
    /\ UNCHANGED <<notHookState, overlapVars>>

\* undo(), as the callback of the last render runs it
EventUndo ==
    /\ edEvents < MaxEvents
    /\ edHook' = IF edRendered = NoEditor THEN edHook
                 ELSE [edHook EXCEPT !.editorState = undo(edRendered)]
    /\ edSequential' = undo(edSequential)
    /\ edPending' = edPending + 1
    /\ edEvents' = edEvents + 1
    /\ UNCHANGED <<edRendered, opHook, hpc, hcall, uncaught, opFailed, hsteps>>
    /\ UNCHANGED <<notHookState, overlapVars>>

\* the component renders again: useCallback([editorState]) builds callbacks that
\* capture the stored editorState
EventRender ==
    /\ edPending > 0
    /\ edRendered' = edHook.editorState
    /\ edPending' = 0
    /\ UNCHANGED <<edSequential, edEvents>>
    /\ UNCHANGED hookVars
    /\ UNCHANGED <<notHookState, overlapVars>>

InitEvents ==
    /\ InitEditor /\ filling = 0 /\ budget = 0
    /\ BatchIdle
    /\ svcPc = "idle" /\ call = NoCall /\ nativeLog = <<>> /\ fsResult = NoFs
    /\ settled = NoSettle
    /\ fitArgs = [width |-> 1, height |-> 1, maxWidth |-> 1, maxHeight |-> 1]
    /\ fitResult = NoDimensions
    /\ edHook = [editorState |-> createInitialState, isProcessing |-> FALSE,
                 error |-> "null"]
    /\ opHook = [isProcessing |-> FALSE, error |-> "null"]
    /\ hpc = "idle"
    /\ hcall = [hookName |-> "none", action |-> "none", returned |-> "void",
                before |-> NoEditor]
    /\ uncaught = 0
    /\ opFailed = "none"
    /\ hsteps = 0
    /\ GalleryUnmounted
    /\ CropIdle /\ FilterIdle /\ OverlapIdle
    /\ edRendered = createInitialState
    /\ edSequential = createInitialState
    /\ edPending = 0
    /\ edEvents = 0

NextEvents == EventAddLayer \/ EventUndo \/ EventRender

\* an initialised editor whose addLayer and undo actions are invoked with or without a
\* render between them
SpecEvents == InitEvents /\ [][NextEvents]_vars

----------------------------------------------------------------------------
(* overlapping useImageOperation.execute calls *)

\* execute calls made on the mounted hook
MaxExecutes == 4

\* execute(operation, errorMessage) up to `await operation()`, whatever else is pending
OverlapExecute ==
    /\ executes < MaxExecutes
    /\ opHook' = [isProcessing |-> TRUE, error |-> "null"]
    /\ pendingOps' = pendingOps \cup {executes + 1}
    /\ executes' = executes + 1
    /\ UNCHANGED <<edHook, hpc, hcall, uncaught, opFailed, hsteps>>
    /\ UNCHANGED <<notHookState, eventVars>>

\* a pending operation resolves: return result, then finally
OverlapResolves ==
    /\ \E op \in pendingOps :
        /\ pendingOps' = pendingOps \ {op}
        /\ opHook' = [opHook EXCEPT !.isProcessing = FALSE]
    /\ UNCHANGED <<executes, edHook, hpc, hcall, uncaught, opFailed, hsteps>>
    /\ UNCHANGED <<notHookState, eventVars>>

\* a pending operation throws or rejects: catch, return null, then finally
OverlapRejects ==
    /\ \E op \in pendingOps, err \in OpErrors :
        /\ pendingOps' = pendingOps \ {op}
        /\ opHook' = [isProcessing |-> FALSE, error |-> ExecuteMessage(err)]
    /\ UNCHANGED <<executes, edHook, hpc, hcall, uncaught, opFailed, hsteps>>
    /\ UNCHANGED <<notHookState, eventVars>>

InitOverlap ==
    /\ InitEditor /\ filling = 0 /\ budget = 0
    /\ BatchIdle
    /\ ServiceIdle
    /\ CropIdle /\ FilterIdle /\ EventsIdle
    /\ pendingOps = {}
    /\ executes = 0

NextOverlap == OverlapExecute \/ OverlapResolves \/ OverlapRejects

\* execute called up to MaxExecutes times, each operation settling at any later time
SpecOverlap == InitOverlap /\ [][NextOverlap]_vars

----------------------------------------------------------------------------
(* CropTool.getCropFromSelection *)

\* largest coordinate of a selection point; the image is MaxCoord x MaxCoord
MaxCoord == 2

RatLess(p, q) == p.num * q.den < q.num * p.den
RatMax(p, q) == IF RatLess(p, q) THEN q ELSE p
RatMin(p, q) == IF RatLess(q, p) THEN q ELSE p
Abs(n) == IF n < 0 THEN -n ELSE n

\* width and height are whole numbers here, aspectRatio is a fraction above 0;
\* width / height is Infinity for height 0 and width > 0, and NaN (never greater) for 0 / 0
constrainToAspectRatio(width, height, aspectRatio) ==
    LET wider == IF height = 0 THEN width > 0
                 ELSE width * aspectRatio.den > aspectRatio.num * height
    IN IF wider
       THEN [width |-> Rat(height * aspectRatio.num, aspectRatio.den),
             height |-> Rat(height, 1)]
       ELSE [width |-> Rat(width, 1),
             height |-> Rat(width * aspectRatio.den, aspectRatio.num)]

applyMinimumSize(area, minSize) ==
    [area EXCEPT !.width = RatMax(area.width, Rat(minSize.width, 1)),
                 !.height = RatMax(area.height, Rat(minSize.height, 1))]

applyMaximumSize(area, maxSize) ==
    [area EXCEPT !.width = RatMin(area.width, Rat(maxSize.width, 1)),
                 !.height = RatMin(area.height, Rat(maxSize.height, 1))]

getCropFromSelection(startPoint, endPoint, config) ==
    LET x == Min(startPoint.x, endPoint.x)
        y == Min(startPoint.y, endPoint.y)
        width == Abs(endPoint.x - startPoint.x)
        height == Abs(endPoint.y - startPoint.y)
        locked == config.lockAspectRatio /\ config.aspectRatio.num # 0
        constrained == constrainToAspectRatio(width, height, config.aspectRatio)
        a1 == IF locked
              THEN [x |-> x, y |-> y, width |-> constrained.width,
                    height |-> constrained.height]
              ELSE [x |-> x, y |-> y, width |-> Rat(width, 1), height |-> Rat(height, 1)]
        a2 == IF config.minSize.given THEN applyMinimumSize(a1, config.minSize) ELSE a1
    IN IF config.maxSize.given THEN applyMaximumSize(a2, config.maxSize) ELSE a2

Points == [x : 0..MaxCoord, y : 0..MaxCoord]

\* the CropConfig arguments explored: free, locked to 1:1 and to 4:3, a minimum size,
\* a maximum size
CropConfigs ==
    {FreeConfig,
     [FreeConfig EXCEPT !.lockAspectRatio = TRUE, !.aspectRatio = Rat(1, 1)],
     [FreeConfig EXCEPT !.lockAspectRatio = TRUE, !.aspectRatio = Rat(4, 3)],
     [FreeConfig EXCEPT !.minSize = [given |-> TRUE, width |-> 2, height |-> 2]],
     [FreeConfig EXCEPT !.maxSize = [given |-> TRUE, width |-> 1, height |-> 1]]}

\* getCropFromSelection(startPoint, endPoint, config) is called and returns
GetCropFromSelection ==
    /\ ~cropOut.done
    /\ cropOut' = [done |-> TRUE,
                   area |-> getCropFromSelection(cropArgs.startPoint, cropArgs.endPoint,
                                                 cropArgs.config)]
    /\ UNCHANGED cropArgs
    /\ UNCHANGED notCrop

InitCrop ==
    /\ InitEditor /\ filling = 0 /\ budget = 0
    /\ BatchIdle
    /\ ServiceIdle
    /\ cropArgs \in [startPoint : Points, endPoint : Points, config : CropConfigs,
                     bounds : {[width |-> MaxCoord, height |-> MaxCoord]}]
    /\ cropOut = NoCrop
    /\ FilterIdle /\ EventsIdle /\ OverlapIdle

NextCrop == GetCropFromSelection

\* one getCropFromSelection call for every selection inside the image and every config
SpecCrop == InitCrop /\ [][NextCrop]_vars

----------------------------------------------------------------------------
(* The pixel filter functions: ImageFilterUtils, FilterEffects, FilterProcessor *)

\* filter calls made on the one source buffer
MaxFilterCalls == 2

\* the channel values of the source pixel
Bytes == {0, 100, 255}

\* the alpha values of the source pixel
Alphas == {255}

\* the brightness arguments, in -100..100
Brightnesses == {-100, 20}

\* the FilterState intensities, in 0..100
Intensities == {0, 50, 100}

\* storing the number q into a Uint8ClampedArray: clamped to 0..255 and rounded to
\* the nearest integer, ties to the even one
ToUint8Clamped(q) ==
    IF q.num <= 0 THEN 0
    ELSE IF q.num >= 255 * q.den THEN 255
    ELSE LET f == q.num \div q.den
             r == q.num % q.den
         IN IF 2 * r < q.den THEN f
            ELSE IF 2 * r > q.den THEN f + 1
            ELSE IF f % 2 = 0 THEN f ELSE f + 1

\* position p (from 1) of an RGBA buffer holds a colour channel, not the alpha
IsColour(p) == (p - 1) % 4 # 3

\* the position of the red channel of the pixel position p belongs to
RedOf(p) == p - ((p - 1) % 4)

\* ImageFilterUtils.applyBrightness and its twin FilterProcessor.applyBrightness: the
\* bytes of the result buffer; adjustment = brightness * 2.55
applyBrightness(data, brightness) ==
    [p \in 1..Len(data) |->
        IF IsColour(p)
        THEN ToUint8Clamped(RatMin(Rat(255, 1),
                 RatMax(Rat(0, 1), Rat(data[p] * 100 + brightness * 255, 100))))
        ELSE data[p]]

\* FilterEffects.applySepia: the bytes of the buffer it allocates; intensity is a
\* fraction
applySepia(data, intensity) ==
    LET kn == intensity.num
        kd == intensity.den
        mixed(p) ==
            LET r == data[RedOf(p)]
                g == data[RedOf(p) + 1]
                b == data[RedOf(p) + 2]
                c == (p - 1) % 4
            IN IF c = 0
               THEN Rat(r * (1000 * kd - 607 * kn) + g * 769 * kn + b * 189 * kn, 1000 * kd)
               ELSE IF c = 1
               THEN Rat(r * 349 * kn + g * (1000 * kd - 314 * kn) + b * 168 * kn, 1000 * kd)
               ELSE Rat(r * 272 * kn + g * 534 * kn + b * (1000 * kd - 869 * kn), 1000 * kd)
    IN [p \in 1..Len(data) |->
           IF IsColour(p) THEN ToUint8Clamped(RatMin(Rat(255, 1), mixed(p))) ELSE data[p]]

\* 1 - (distance / maxDistance) * 0.7 for the pixel of a 1 x 1 image, whose distance
\* from the centre is maxDistance: the double 0.30000000000000004, just above 3/10;
\* its product with every byte rounds as the product with 3001/10000 does
Vignette == Rat(3001, 10000)

\* FilterEffects.applyVintage on a 1 x 1 image: the bytes of the buffer applySepia
\* allocated, after the vignette loop has multiplied its colour channels in place
applyVintage(data) ==
    LET sepia == applySepia(data, Rat(8, 10))
    IN [p \in 1..Len(sepia) |->
           IF IsColour(p)
           THEN ToUint8Clamped(Rat(sepia[p] * Vignette.num, Vignette.den))
           ELSE sepia[p]]

\* a blend that weights the two buffers the other way round
applyIntensity_swapped(originalData, processedData, intensity) ==
    [p \in 1..Len(originalData) |->
        ToUint8Clamped(Rat(originalData[p] * intensity.num
                           + processedData[p] * (intensity.den - intensity.num),
                           intensity.den))]

\* ImageFilterUtils.applyIntensity and its twin FilterProcessor.applyIntensity: the
\* bytes of the result buffer; intensity is the fraction FilterState.intensity / 100
applyIntensity(originalData, processedData, intensity) ==
    [p \in 1..Len(originalData) |->
        ToUint8Clamped(Rat(originalData[p] * (intensity.den - intensity.num)
                           + processedData[p] * intensity.num,
                           intensity.den))]

\* the ids of FilterProcessor.PRESETS
Presets == {"brightness", "contrast", "saturation", "vintage", "blur"}

\* the FilterState arguments explored: the brightness preset at three intensities,
\* the same disabled, and an id that is no preset
FilterStates ==
    [id : {"brightness"}, intensity : Intensities, brightness : {20}, enabled : {TRUE}]
    \cup {[id |-> "brightness", intensity |-> 100, brightness |-> 20, enabled |-> FALSE],
          [id |-> "sepia", intensity |-> 100, brightness |-> 0, enabled |-> TRUE]}

\* the arguments of a call that takes no FilterState, as a record of the same shape
Direct(intensity, brightness) ==
    [id |-> "", intensity |-> intensity, brightness |-> brightness, enabled |-> TRUE]

\* the record of one call: h0 and h1 are the heap before and after it, ret the buffer
\* returned, processed the bytes of the processed buffer of a blend (<<>> without one)
FilterCall(fn, st, h0, h1, ret, processed) ==
    [fn |-> fn, state |-> st, ret |-> ret, fresh |-> ret > Len(h0),
     original |-> h0[1], processed |-> processed, result |-> h1[ret],
     after |-> h1[1]]

\* ImageFilterUtils.applyBrightness(source, brightness)
ApplyBrightness ==
    /\ Len(filterLog) < MaxFilterCalls
    /\ \E brightness \in Brightnesses :
        LET h1 == Append(heap, applyBrightness(heap[1], brightness))
        IN /\ heap' = h1
           /\ filterLog' = Append(filterLog,
                  FilterCall("applyBrightness", Direct(100, brightness), heap, h1,
                             Len(h1), <<>>))
    /\ UNCHANGED notFilter

\* FilterEffects.applyVintage({data: source, width: 1, height: 1})
ApplyVintage ==
    /\ Len(filterLog) < MaxFilterCalls
    /\ LET h1 == Append(heap, applyVintage(heap[1]))
       IN /\ heap' = h1
          /\ filterLog' = Append(filterLog,
                 FilterCall("applyVintage", Direct(100, 0), heap, h1, Len(h1), <<>>))
    /\ UNCHANGED notFilter

\* ImageFilterUtils.applyIntensity(source, processed, intensity / 100), processed being
\* any buffer allocated so far
ApplyIntensity ==
    /\ Len(filterLog) < MaxFilterCalls
    /\ \E processed \in 1..Len(heap), intensity \in Intensities :
        LET h1 == Append(heap, applyIntensity(heap[1], heap[processed],
                                              Rat(intensity, 100)))
        IN /\ heap' = h1
           /\ filterLog' = Append(filterLog,
                  FilterCall("applyIntensity", Direct(intensity, 0), heap, h1,
                             Len(h1), heap[processed]))
    /\ UNCHANGED notFilter

\* FilterProcessor.applyFilter({data: source, width: 1, height: 1}, filterState)
ApplyFilter ==
    /\ Len(filterLog) < MaxFilterCalls
    /\ \E filterState \in FilterStates :
        IF filterState.id \notin Presets \/ ~filterState.enabled
        THEN \* return imageData
             /\ heap' = heap
             /\ filterLog' = Append(filterLog,
                    FilterCall("applyFilter", filterState, heap, heap, 1, <<>>))
        ELSE LET copied == Append(heap, heap[1])
                 filtered == Append(copied, applyBrightness(copied[Len(copied)],
                                                            filterState.brightness))
                 processed == filtered[Len(filtered)]
                 h1 == IF filterState.intensity < 100
                       THEN Append(filtered,
                                   applyIntensity(filtered[1], processed,
                                                  Rat(filterState.intensity, 100)))
                       ELSE filtered
             IN /\ heap' = h1
                /\ filterLog' = Append(filterLog,
                       FilterCall("applyFilter", filterState, heap, h1, Len(h1),
                                  processed))
    /\ UNCHANGED notFilter

InitFilter ==
    /\ InitEditor /\ filling = 0 /\ budget = 0
    /\ BatchIdle
    /\ ServiceIdle
    /\ CropIdle /\ EventsIdle /\ OverlapIdle
    /\ heap \in {<<<<r, g, b, a>>>> : r \in Bytes, g \in Bytes, b \in Bytes, a \in Alphas}
    /\ filterLog = <<>>

NextFilter ==
    \/ ApplyBrightness
    \/ ApplyVintage
    \/ ApplyIntensity
    \/ ApplyFilter

\* up to MaxFilterCalls filter calls on the same one-pixel source buffer
SpecFilter == InitFilter /\ [][NextFilter]_vars

----------------------------------------------------------------------------
(* Claims about the editor history engine *)

Mutating == {"addLayer", "removeLayer", "updateLayer", "addElementToLayer"}

\* the last operation was a mutating operation that succeeded
Committed == trail # <<>> /\ Last(trail).op \in Mutating /\ Last(trail).err = "none"

Timestamps(history) == {history[k].timestamp : k \in DOMAIN history}

\* C1: in every reachable editor state the cursor is inside the history and
\* state.layers equals the layer list stored in history[historyIndex].
C1_LayersMatchCursor ==
    /\ state.historyIndex + 1 \in DOMAIN state.history
    /\ state.layers = state.history[state.historyIndex + 1].layers

\* C1 witness: an undo has just replaced the layer list by an older snapshot.
C1_Witness ==
    /\ trail # <<>>
    /\ Last(trail).op = "undo"
    /\ state.layers # Last(trail).pre

\* C2: from every reachable state S, addLayer then undo gives S.layers back, and a
\* following redo gives the layer list addLayer produced; both for the operations
\* applied to the current state and for the operations the run has just performed.
C2_UndoRedoRoundTrip ==
    /\ \A name \in Names, id \in GenIds :
          LET a == addLayer(state, name, id, clock + 1).state
              u == undo(a)
              r == redo(u)
          IN /\ u.layers = state.layers
             /\ u.historyIndex = a.historyIndex - 1
             /\ r.layers = a.layers
             /\ r.historyIndex = a.historyIndex
    /\ LET n == Len(trail)
       IN /\ (n >= 2 /\ trail[n - 1].op = "addLayer" /\ trail[n].op = "undo")
                => state.layers = trail[n - 1].pre
          /\ (n >= 3 /\ trail[n - 2].op = "addLayer" /\ trail[n - 1].op = "undo"
                     /\ trail[n].op = "redo")
                => (state.layers = trail[n - 1].pre /\ trail[n].pre = trail[n - 2].pre)

\* C2 witness: addLayer, undo, redo were performed from a state whose history was
\* at the cap and whose cursor was not at the end.
C2_Witness ==
    LET n == Len(trail)
    IN /\ n >= 3
       /\ trail[n - 2].op = "addLayer" /\ trail[n - 1].op = "undo" /\ trail[n].op = "redo"
       /\ trail[n - 2].len = MaxHistory
       /\ trail[n - 2].idx < trail[n - 2].len - 1
       /\ state.layers # trail[n - 2].pre

\* the timestamps 0..clock whose entry is no longer in the history
Gone == {ts \in 0..clock : ts \notin Timestamps(state.history)}

\* C3 (original): after 60 successive mutating operations from the initial state the
\* history holds 50 entries, exactly the 10 oldest entries are evicted and the cursor
\* is on the newest entry.
C3_Original ==
    (clock = 60 /\ pureRun) =>
        /\ Len(state.history) = 50
        /\ Gone = 0..9
        /\ state.historyIndex = Len(state.history) - 1

\* C3 (amended): after 60 successive successful mutating operations from the initial
\* state the history holds 50 entries, exactly the 11 oldest of the 61 entries created
\* (the initial snapshot and those of the first 10 operations) are evicted, and the
\* cursor is on the newest entry.
C3_SixtyOperations ==
    (clock = 60 /\ pureRun) =>
        /\ Len(state.history) = 50
        /\ Gone = 0..10
        /\ \A k \in DOMAIN state.history : state.history[k].timestamp = k + 10
        /\ state.historyIndex = Len(state.history) - 1
        /\ state.history[state.historyIndex + 1].timestamp = 60

\* C3 witness: 60 mutating operations and nothing else have been performed.
C3_Witness == clock = 60 /\ pureRun /\ Len(trail) = TrailLen /\ Committed

\* C4: a successful mutating operation leaves no entry that lay after the old cursor,
\* puts the cursor on the last entry, and makes canRedo false.
C4_RedoBranchDiscarded ==
    [][ (clock' = clock + 1) =>
          LET after == {state.history[k].timestamp :
                          k \in (state.historyIndex + 2)..Len(state.history)}
          IN /\ Timestamps(state'.history) \cap after = {}
             /\ state'.historyIndex = Len(state'.history) - 1
             /\ state'.history[Len(state'.history)].timestamp = clock'
             /\ ~canRedo(state') ]_vars

\* C4 witness: a mutating operation succeeded from a state that had entries after
\* its cursor (one or more undos came before it).
C4_Witness == Committed /\ Last(trail).idx < Last(trail).len - 1

HistoryBounded ==
    /\ 1 <= Len(state.history)
    /\ Len(state.history) <= MaxHistory
    /\ 0 <= state.historyIndex
    /\ state.historyIndex <= Len(state.history) - 1

\* C5: the history has between 1 and 50 entries and the cursor is a valid index of it;
\* a commit that would exceed the cap evicts the oldest entry and keeps the others in
\* order, and a commit that does not exceed it evicts nothing.
C5_HistoryBoundedOldestEvicted ==
    /\ []HistoryBounded
    /\ [][ (clock' = clock + 1) =>
             LET keep == SubSeq(state.history, 1, state.historyIndex + 1)
                 newest == state'.history[Len(state'.history)]
             IN IF Len(keep) + 1 > MaxHistory
                THEN state'.history = Append(Tail(keep), newest)
                ELSE state'.history = Append(keep, newest) ]_vars

\* C5 witness: a commit at the cap has evicted the oldest entry.
C5_Witness ==
    /\ Committed
    /\ Last(trail).len = MaxHistory
    /\ Last(trail).idx = MaxHistory - 1
    /\ Len(state.history) = MaxHistory
    /\ state.history[1].timestamp > 0

\* C6: removeLayer on a state with exactly one layer throws VALIDATION_ERROR and hands
\* no new state to the caller; the edHook's removeLayer then leaves editorState as it
\* was and records the message.
C6_LastLayerKept ==
    /\ [](Len(state.layers) = 1 =>
            \A layerId \in LayerIds :
               LET r == removeLayer(state, layerId, clock + 1)
                   hook == [editorState |-> state, isProcessing |-> FALSE, error |-> "null"]
                   h == hookRemoveLayer(hook, state, layerId, clock + 1)
               IN /\ r.err = "VALIDATION_ERROR"
                  /\ r.state = state
                  /\ h.editorState = state
                  /\ h.error = "Cannot remove the last layer")
    /\ [][ (budget' # budget /\ Last(trail').op = "removeLayer" /\ Len(state.layers) = 1)
             => (state' = state /\ Last(trail').err = "VALIDATION_ERROR") ]_vars

\* C6 witness: removeLayer was called on a one-layer state and threw.
C6_Witness ==
    /\ trail # <<>>
    /\ Last(trail).op = "removeLayer"
    /\ Len(Last(trail).pre) = 1
    /\ Last(trail).err = "VALIDATION_ERROR"
    /\ state.layers = Last(trail).pre

\* C7: the layer list and every snapshot of the history hold at least one layer.
C7_AtLeastOneLayer ==
    /\ Len(state.layers) >= 1
    /\ \A k \in DOMAIN state.history : Len(state.history[k].layers) >= 1

\* C7 witness: a removeLayer has succeeded and left a single layer.
C7_Witness ==
    /\ Committed
    /\ Last(trail).op = "removeLayer"
    /\ Len(Last(trail).pre) >= 2
    /\ Len(state.layers) = 1

----------------------------------------------------------------------------
(* Claims about processBatch *)

N == Len(operations)

\* what the inputs say about an operation, independently of the run
Fails(op) ==
    \/ ~validateUri(op.uri).isValid
    \/ op.type \notin KnownTypes
    \/ ~op.argsOk
    \/ op.native = "throws"

Succeeds(op) == ~Fails(op) /\ op.native = "result"

\* every underlying call that is made returns a result or throws
ReturnsOrThrows ==
    \A k \in DOMAIN operations :
        CallsNative(operations[k]) => operations[k].native \in {"result", "throws"}

\* number of entries of a result list or callback log that came from operation k
Count(log, k) == Cardinality({j \in DOMAIN log : log[j].k = k})

InFlight == {k \in DOMAIN operations : status[k] = "inflight"}

\* the chunk (0-based) the operation at position k belongs to
ChunkOf(k) == (k - 1) \div EffectiveConcurrency

\* C8: when every underlying call returns a result or throws, processBatch never
\* rejects, and it resolves with totalProcessed = n, every operation in exactly one of
\* successful and failed (the successful ones being those whose call returned), and
\* successCount + failureCount = n.
C8_BatchAccountsForEveryOperation ==
    /\ bpc # "rejected"
    /\ (bpc = "done" /\ ReturnsOrThrows) =>
          /\ returned.totalProcessed = N
          /\ \A k \in DOMAIN operations :
                /\ Count(successful, k) + Count(failed, k) = 1
                /\ Count(successful, k) = 1 <=> Succeeds(operations[k])
                /\ \A j \in DOMAIN successful :
                      successful[j].k = k => successful[j].uri = operations[k].uri
                /\ \A j \in DOMAIN failed :
                      failed[j].k = k => failed[j].uri = operations[k].uri
          /\ returned.successCount = Len(successful)
          /\ returned.failureCount = Len(failed)
          /\ returned.successCount + returned.failureCount = N

\* C8 witness: a batch of more than one chunk has resolved with successes and failures.
C8_Witness ==
    /\ bpc = "done" /\ ReturnsOrThrows
    /\ N > EffectiveConcurrency
    /\ returned.successCount >= 1
    /\ returned.failureCount >= 2

\* C9: at most `concurrency` (3 when absent) operations are in flight, and no operation
\* of a later chunk has started while one of an earlier chunk has not settled.
C9_BoundedChunkedConcurrency ==
    /\ Cardinality(InFlight) <= EffectiveConcurrency
    /\ \A j, k \in DOMAIN operations :
          (ChunkOf(j) < ChunkOf(k) /\ status[k] # "pending") => status[j] = "settled"

\* C9 witness: a later chunk is running with `concurrency` operations in flight.
C9_Witness ==
    /\ i > 0
    /\ bpc = "await"
    /\ Cardinality(InFlight) = EffectiveConcurrency
    /\ Cardinality(InFlight) >= 2

\* C10: no failing operation makes processBatch reject or skip another operation: at the
\* end every operation has settled and been reported to onProgress, the operations whose
\* call returned are all in successful, and onError was called exactly once for each
\* failed operation and never for another one.
C10_FailuresAreIsolated ==
    /\ bpc # "rejected"
    /\ \A k \in DOMAIN operations :
          /\ Count(errorLog, k) <= (IF Fails(operations[k]) THEN 1 ELSE 0)
          /\ \A j \in DOMAIN errorLog :
                errorLog[j].k = k => errorLog[j].uri = operations[k].uri
    /\ bpc = "done" =>
          /\ completed = N
          /\ Len(progressLog) = N
          /\ \A k \in DOMAIN operations :
                /\ status[k] = "settled"
                /\ Count(errorLog, k) = (IF Fails(operations[k]) THEN 1 ELSE 0)
                /\ Succeeds(operations[k]) => Count(successful, k) = 1

\* C10 witness: a batch has resolved in which a failed operation was followed by a
\* successful one in its own chunk and by another in a later chunk.
C10_Witness ==
    /\ bpc = "done"
    /\ \E a, b, c \in DOMAIN operations :
          /\ a < b /\ b < c
          /\ ChunkOf(a) = ChunkOf(b) /\ ChunkOf(b) < ChunkOf(c)
          /\ Fails(operations[a]) /\ Count(errorLog, a) = 1
          /\ Count(successful, b) = 1 /\ Count(successful, c) = 1

\* C11: onProgress is called once per operation, after the operation has settled and
\* whether it failed or not, with total = n and completed = 1, 2, ..., n in this order
\* (the j-th call reports the j-th operation).
C11_ProgressCountsEveryItem ==
    /\ Len(progressLog) = completed
    /\ Len(progressLog) <= N
    /\ \A j \in DOMAIN progressLog :
          /\ progressLog[j].completed = j
          /\ progressLog[j].total = N
          /\ progressLog[j].uri = operations[j].uri
          /\ status[j] = "settled"
    /\ bpc = "done" => Len(progressLog) = N

\* C11 witness: a batch of more than one chunk has resolved, and onProgress was called
\* for a failed operation and for a successful one.
C11_Witness ==
    /\ bpc = "done"
    /\ N > EffectiveConcurrency
    /\ Len(progressLog) = N
    /\ \E a, b \in DOMAIN operations :
          Count(failed, a) = 1 /\ Count(successful, b) = 1

\* the validations the specification gives the arguments of a call: the codes of those
\* that fail
FailingCodes(c) ==
    (IF ~validateUri(c.uri).isValid THEN {"INVALID_URI"} ELSE {}) \cup
    (IF \/ c.op = "resize"
           /\ ~validateDimensions([width |-> c.args.width, height |-> c.args.height]).isValid
        \/ c.op = "crop" /\ ~validateDimensions(c.args).isValid
        \/ c.op = "manipulate" /\ c.args.resize.present
           /\ ~validateDimensions(c.args.resize).isValid
        \/ c.op = "manipulate" /\ c.args.crop.present
           /\ ~validateDimensions(c.args.crop).isValid
     THEN {"INVALID_DIMENSIONS"} ELSE {}) \cup
    (IF /\ c.op \in {"compress", "convertFormat"}
        /\ c.args.defined
        /\ ~validateQuality(c.args.val).isValid
     THEN {"INVALID_QUALITY"} ELSE {}) \cup
    (IF \/ c.op = "rotate" /\ ~validateRotation(c.args).isValid
        \/ c.op = "manipulate" /\ c.args.rotate.present
           /\ ~validateRotation(c.args.rotate).isValid
     THEN {"VALIDATION_ERROR"} ELSE {})

ServiceOps == {"resize", "crop", "rotate", "flip", "manipulate", "compress", "convertFormat"}

\* C12: a call of resize, crop, rotate, flip, manipulate, compress or convertFormat whose
\* URI or numeric argument fails validation never invokes the native engine, and it
\* is rejected with the code of a validation that failed.
C12_ValidationStopsNativeCall ==
    (call.op \in ServiceOps /\ FailingCodes(call) # {}) =>
        /\ nativeLog = <<>>
        /\ svcPc = "settled"
        /\ settled.kind = "rejected"
        /\ settled.code \in FailingCodes(call)

\* the filesystem collaborator failed: it threw, or returned success = false or no uri
FsFailed == fsResult # NoFs /\ (fsResult.kind = "throws" \/ ~fsResult.success \/ fsResult.uri = "")

\* C13: whenever copyToDocuments fails during saveImage, by its return value or by
\* throwing, saveImage is rejected with the code STORAGE_FAILED.
C13_StorageFailureCode ==
    (call.op = "saveImage" /\ FsFailed) =>
        /\ settled.kind = "rejected"
        /\ settled.code = "STORAGE_FAILED"

\* C14: the resize that resizeToFit asks the native engine for has the dimensions of
\* the source image fitted into the maxWidth x maxHeight box, aspect ratio kept.
C14_ResizeToFitFitsTheSource ==
    (call.op = "resizeToFit" /\ nativeLog # <<>>) =>
        LET fit == fitToSize(call.args.source.width, call.args.source.height,
                             call.args.maxWidth, call.args.maxHeight)
        IN nativeLog = <<[uri |-> call.uri,
                          actions |-> <<[resize |-> [width |-> Num(fit.width),
                                                     height |-> Num(fit.height)]]>>]>>

\* r is Math.round(num / den), halves up
IsRounded(r, num, den) == 2 * den * r <= 2 * num + den /\ 2 * num + den < 2 * den * (r + 1)

\* C15: for positive integers, fitToSize returns width <= maxWidth and height <=
\* maxHeight; the width is clamped first (height = maxWidth * height / width), then
\* the height (width = maxHeight * width / height), both results rounded; the
\* README's fitToSize(1920, 1080, 800, 600) is {width: 800, height: 450}.
C15_FitToSizeWithinBox ==
    fitResult # NoDimensions =>
        LET w == fitArgs.width
            h == fitArgs.height
            mw == fitArgs.maxWidth
            mh == fitArgs.maxHeight
            cw == IF w > mw THEN mw ELSE w
        IN /\ fitResult.width <= mw
           /\ fitResult.height <= mh
           /\ IF cw * h > mh * w
              THEN fitResult.height = mh /\ IsRounded(fitResult.width, mh * w, h)
              ELSE fitResult.width = cw /\ IsRounded(fitResult.height, cw * h, w)
           /\ fitArgs = ExampleFit => fitResult = [width |-> 800, height |-> 450]

\* C15 witness: fitToSize has returned for the README's example.
C15_Witness ==
    /\ fitArgs = ExampleFit
    /\ fitResult = [width |-> 800, height |-> 450]

\* the error state of the edHook the last action belongs to
HookError == IF hcall.hookName = "useImageOperation" THEN opHook.error ELSE edHook.error

\* C16: no action of useImageOperation-based hooks or of useImageEditor lets an
\* exception escape; once the underlying operation has failed and the action can take
\* no further step, the action has returned null or left editorState as it was, and
\* the edHook's error state holds the failure message.
C16_HookActionsNeverThrow ==
    /\ uncaught = 0
    /\ (opFailed # "none" /\ hpc \in {"idle", "hung"}) =>
          /\ (hcall.returned = "null" \/ edHook.editorState = hcall.before)
          /\ HookError = opFailed

\* a call of op was just made
Called(op) == gsteps' # gsteps /\ gcall'.op = op

\* stored is the list of input items in input order, each reduced to uri, title,
\* description, width and height
IsNormalized(stored, imageData) ==
    /\ Len(stored) = Len(imageData)
    /\ \A k \in DOMAIN imageData :
          /\ DOMAIN stored[k] = {"uri", "title", "description", "width", "height"}
          /\ stored[k].uri = imageData[k].uri
          /\ stored[k].title = imageData[k].title
          /\ stored[k].description = imageData[k].description
          /\ stored[k].width = imageData[k].width
          /\ stored[k].height = imageData[k].height

\* what every open and close call does besides the current index
OpenAndClose ==
    /\ Called("open") => visible' /\ IsNormalized(images', gcall'.imageData)
    /\ Called("close") => ~visible' /\ images' = images /\ currentIndex' = currentIndex

\* C17 as stated: the gallery starts closed; every open shows it with the normalized
\* items and with currentIndex = startIndex (0 when omitted); close hides it and keeps
\* images and currentIndex.
C17_Original ==
    /\ [](gcall.op = "none" => ~visible /\ images = <<>> /\ currentIndex = 0)
    /\ [][ /\ OpenAndClose
           /\ Called("open") =>
                 currentIndex' = IF gcall'.startIndex.defined
                                 THEN gcall'.startIndex.val ELSE 0 ]_vars

\* C17, amended: the gallery starts closed; every open shows it with the normalized
\* items, and with currentIndex = options.index when the call's options carry an
\* index, else startIndex (0 when omitted); close hides it and keeps images and
\* currentIndex.
C17_OpenCloseCycle ==
    /\ [](gcall.op = "none" => ~visible /\ images = <<>> /\ currentIndex = 0)
    /\ [][ /\ OpenAndClose
           /\ Called("open") =>
                 currentIndex' = IF gcall'.options.index.defined
                                 THEN gcall'.options.index.val
                                 ELSE IF gcall'.startIndex.defined
                                 THEN gcall'.startIndex.val ELSE 0 ]_vars

\* C17 witness: the gallery was opened, closed (onDismiss ran) and opened again, the
\* second time with a startIndex and an options.index that differ.
C17_Witness ==
    /\ Len(openLog) = 2
    /\ dismissLog # <<>>
    /\ visible
    /\ gcall.op = "open"
    /\ gcall.startIndex = Num(1)
    /\ gcall.options.index = Num(2)
    /\ currentIndex = 2
    /\ Len(images) = 2

\* base overridden key by key by the options of log, in order: a key an options object
\* carries replaces the value so far, a key it lacks keeps it
RECURSIVE Overridden(_, _)
Overridden(base, log) ==
    IF log = <<>> THEN base
    ELSE LET o == log[1]
             next == [k \in DOMAIN base |->
                         IF k = "index"
                         THEN (IF o.index.defined THEN o.index ELSE base.index)
                         ELSE (IF o[k] # "absent" THEN o[k] ELSE base[k])]
         IN Overridden(next, Tail(log))

\* the index-change callback registered so far, through the default options or an open
Registered == Overridden(initialOptions, openLog).onIndexChange

\* C18: every setIndex(i) sets currentIndex to i and, when an index-change callback has
\* been registered through the default options or an earlier open, invokes that
\* callback exactly once with i.
C18_SetIndexAlwaysNotifies ==
    [][ Called("setIndex") =>
          /\ currentIndex' = gcall'.index
          /\ Registered # "absent" =>
                indexChangeLog' = Append(indexChangeLog,
                                         [callback |-> Registered, index |-> gcall'.index])
      ]_vars

\* C19: after any sequence of open calls the stored options are the initial options
\* overridden key by key by the options of each call, in call order.
C19_OptionsLastWriteWins ==
    galleryOptions = Overridden(initialOptions, openLog)

\* the client just ran op
Ran(op) == budget' # budget /\ Last(trail').op = op

\* C20: setTool, setZoom and setPan change the tool, the zoom and the pan and nothing
\* else (layers, history, historyIndex and isDirty stay), through the service and
\* through the hook's setTool; undo and redo leave tool, zoom and pan as they are.
C20_ViewStateOutsideHistory ==
    /\ [](\A tool \in Tools :
            LET h == [editorState |-> state, isProcessing |-> FALSE, error |-> "null"]
            IN hookSetTool(h, state, tool) = [h EXCEPT !.editorState.tool = tool])
    /\ [][ /\ Ran("setTool") => state' = [state EXCEPT !.tool = state'.tool]
           /\ Ran("setZoom") => state' = [state EXCEPT !.zoom = state'.zoom]
           /\ Ran("setPan") => state' = [state EXCEPT !.pan = state'.pan]
           /\ (Ran("undo") \/ Ran("redo")) =>
                 /\ state'.tool = state.tool
                 /\ state'.zoom = state.zoom
                 /\ state'.pan = state.pan ]_vars

\* C20 witness: after a mutation the tool and the zoom were changed, and an undo that
\* went back one history entry kept both.
C20_Witness ==
    /\ Len(trail) = 3
    /\ trail[1].op = "setTool"
    /\ trail[2].op = "setZoom"
    /\ trail[3].op = "undo"
    /\ trail[3].idx = 1
    /\ state.historyIndex = 0
    /\ state.tool = "brush"
    /\ state.zoom = 25

\* the kinds of the actions of a native request, in order
Kinds(actions) ==
    [k \in DOMAIN actions |->
        IF "resize" \in DOMAIN actions[k] THEN "resize"
        ELSE IF "crop" \in DOMAIN actions[k] THEN "crop"
        ELSE IF "rotate" \in DOMAIN actions[k] THEN "rotate"
        ELSE "flip"]

\* the kinds an action argument asks for, in the fixed order; a rotation by 0 degrees
\* asks for nothing, a flip asks for one action per axis
RequestedKinds(a) ==
    (IF a.resize.present THEN <<"resize">> ELSE <<>>) \o
    (IF a.crop.present THEN <<"crop">> ELSE <<>>) \o
    (IF a.rotate.present /\ ~(a.rotate.isNumber /\ a.rotate.val = 0)
     THEN <<"rotate">> ELSE <<>>) \o
    (IF a.flip.present /\ a.flip.horizontal THEN <<"flip">> ELSE <<>>) \o
    (IF a.flip.present /\ a.flip.vertical THEN <<"flip">> ELSE <<>>)

C22_CropAreaInsideImage ==
    cropOut.done =>
        LET a == cropOut.area
            b == cropArgs.bounds
        IN /\ a.width.num > 0
           /\ a.height.num > 0
           /\ a.x >= 0
           /\ a.y >= 0
           /\ a.x * a.width.den + a.width.num <= b.width * a.width.den
           /\ a.y * a.height.den + a.height.num <= b.height * a.height.den

\* C23: every filter call returns a buffer that was allocated during the call and
\* leaves the bytes of its source buffer as they were, and two calls of the same
\* function with the same arguments on the same source give the same bytes.
C23_FiltersAllocateFresh ==
    /\ \A k \in 1..Len(filterLog) :
        /\ filterLog[k].fresh
        /\ filterLog[k].after = filterLog[k].original
    /\ \A j, k \in 1..Len(filterLog) :
        (/\ filterLog[j].fn = filterLog[k].fn
         /\ filterLog[j].state = filterLog[k].state
         /\ filterLog[j].processed = filterLog[k].processed)
        => filterLog[j].result = filterLog[k].result

\* the calls in which a blend of an original and a processed buffer is asked for
Blends ==
    {k \in 1..Len(filterLog) :
        /\ filterLog[k].fn \in {"applyIntensity", "applyFilter"}
        /\ filterLog[k].processed # <<>>}

\* C24: with intensity the FilterState percentage (the blend receives intensity / 100),
\* the result of a blend of two buffers of equal length equals the processed buffer
\* byte for byte at intensity 100 and the original buffer byte for byte at intensity 0.
C24_BlendEndpoints ==
    \A k \in Blends :
        /\ filterLog[k].state.intensity = 100
            => filterLog[k].result = filterLog[k].processed
        /\ filterLog[k].state.intensity = 0
            => filterLog[k].result = filterLog[k].original

\* a blend at intensity 0 and a blend at intensity 100 have both run on buffers that
\* differ, the second through applyIntensity itself
C24_Witness ==
    \E j, k \in Blends :
        /\ filterLog[j].state.intensity = 0
        /\ filterLog[j].processed # filterLog[j].original
        /\ filterLog[j].result = filterLog[j].original
        /\ filterLog[k].fn = "applyIntensity"
        /\ filterLog[k].state.intensity = 100
        /\ filterLog[k].processed # filterLog[k].original
        /\ filterLog[k].result = filterLog[k].processed

\* C25: the stored editorState is the one obtained by applying every action invoked so
\* far (addLayer, undo) in order, each to the result of the one before, whether or not
\* the component rendered between two of them.
C25_ActionsApplyInOrder ==
    edEvents > 0 => edHook.editorState = edSequential

\* C26: while an operation started through execute has not settled, isProcessing is
\* true.
C26_ProcessingWhilePending ==
    pendingOps # {} => opHook.isProcessing

\* C27: in every editor state reached through addLayer, removeLayer, updateLayer, undo
\* and redo, selectedLayer is undefined or the id of a layer in layers.
C27_SelectedLayerPresent ==
    state.selectedLayer # "undefined"
        => \E k \in DOMAIN state.layers : state.layers[k].id = state.selectedLayer

\* C28: whenever initializeEditor or exportImage has set isProcessing to true, a later
\* state has it false again, whether the load or export it waits on succeeds or fails.
C28_ProcessingEnds ==
    edHook.isProcessing ~> ~edHook.isProcessing

\* C29: whenever the gallery is visible with a non-empty image list, currentIndex is
\* at least 0 and less than the number of images.
C29_IndexInsideList ==
    (visible /\ images # <<>>) => (currentIndex >= 0 /\ currentIndex < Len(images))

\* C30: in every reachable editor state, addElementToLayer with a layer id that no
\* layer has, or with the id of a layer that is locked, fails with VALIDATION_ERROR
\* and returns no new state; and no addElementToLayer call changes the elements of a
\* layer that is locked.
C30_LockedLayerUntouched ==
    \A layerId \in LayerIds \cup {"missing"}, element \in Elements :
        LET r == addElementToLayer(state, layerId, element, clock + 1)
            locked == {k \in DOMAIN state.layers : state.layers[k].locked}
        IN /\ ((\A k \in DOMAIN state.layers : state.layers[k].id # layerId)
               \/ (\E k \in locked : state.layers[k].id = layerId))
              => (r.err = "VALIDATION_ERROR" /\ r.state = state)
           /\ \A k \in locked :
                /\ k \in DOMAIN r.state.layers
                /\ r.state.layers[k].elements = state.layers[k].elements

====
